---- MODULE Spec2Model ----
(***************************************************************************)
(* A model of the gpagent orchestrator (src/src/agent/orchestrator.cpp)    *)
(* with the parts of the tool registry/executor, memory, provider adapters *)
(* and TRM trainer that its turn loop drives.                              *)
(*                                                                         *)
(* Threads: the callers of process(), a thread calling shutdown(), a       *)
(* client calling abort_task()/complete_task(), and the trainer worker.    *)
(* Every atomic load/store of the orchestrator is a step of its own.       *)
(***************************************************************************)
EXTENDS Integers, Sequences, FiniteSets, TLC

\* ------------------------------------------------------------------ bounds
\* Orchestrator::Config::max_turns_per_task (configuration value)
max_turns_per_task == 2
\* ContextConfig::keep_raw_turns (configuration value)
keep_raw_turns == 1
\* TRMConfig::min_episodes_before_training (configuration value)
min_episodes_before_training == 1
\* TRMConfig::epochs (configuration value)
epochs == 2
\* process() invocations issued in one run of the model
MaxInvocations == 2
\* tool calls requested in one run of the model
MaxToolCalls == 2
\* abort_task()/complete_task() calls issued in one run of the model
MaxClientCalls == 1
\* abort_task()/complete_task() calls of a client, where one caller runs process()
MaxTaskCalls == 2
MaxStoredLines == 2
\* the most episodes in the buffer sample_contrastive_pairs draws from
MaxSampled == 4
\* the largest num_pairs asked of sample_contrastive_pairs
MaxPairs == 1
\* the longest action history handed to TRMModel::predict
MaxHistory == 4
\* calls made of the executor in one run of the pool model
MaxSubmits == 3
\* the draws the fallback of sample_contrastive_pairs makes for one index
SampleAttempts == 10
\* the largest ConcurrencyConfig::thread_pool_size tried
MaxThreadPoolSize == 2
\* the largest ConcurrencyConfig::max_parallel_tools tried
MaxParallelTools == 2
\* execute_batch() calls issued in one run of the model
MaxBatches == 2
\* LLM calls issued in one run of the gateway model
MaxLLMCalls == 2
\* start_training_async() calls issued in one run of the trainer model
MaxStarts == 2
\* episodes pushed into the Episode Buffer in one run of the buffer model
MaxInserted == 12
\* the most episodes episodic memory holds when load_from_memory reads it
MaxLoaded == 2
\* MemoryConfig::checkpoint_interval (configuration value)
checkpoint_interval == 2
\* append_message() calls issued in one run of the session model
MaxAppends == 4
\* checkpoints created in one run of the session model
MaxCheckpoints == 3
\* ContextConfig::summarize_batch (configuration value)
summarize_batch == 1

Callers == {"c1", "c2"}
Inputs == {"task"}
Providers == {"claude", "gemini"}

\* ------------------------------------------------------------------ data
NoId == [p |-> "none", n |-> 0]
None == [kind |-> "none", code |-> "", value |-> ""]
NoJson == [type |-> "none"]

Ok(v) == [kind |-> "ok", code |-> "Ok", value |-> v]
Err(code, msg) == [kind |-> "err", code |-> code, value |-> msg]

\* Message::user / Message::assistant / Message::tool_result
MessageUser(content) ==
    [role |-> "user", content |-> content, tool_calls |-> <<>>, tool_call_id |-> NoId]

MessageAssistant(content) ==
    [role |-> "assistant", content |-> content, tool_calls |-> <<>>, tool_call_id |-> NoId]

MessageToolResult(id, content) ==
    [role |-> "tool", content |-> content, tool_calls |-> <<>>, tool_call_id |-> id]

\* ------------------------------------------------------------ tool registry
\* ParamSpec (tool_spec.hpp lines 42-48); enum_values.has: the optional is set
Param(name, type, required, has, values) ==
    [name |-> name, type |-> type, required |-> required,
     enum_values |-> [has |-> has, values |-> values]]

\* A JSON argument: the key, the kind of the value and, for a string, its text
Arg(name, kind, str) == [name |-> name, kind |-> kind, str |-> str]

PathArg == Arg("path", "string", "a")

FileReadSpec == [name |-> "file_read", parameters |-> <<Param("path", "String", TRUE, FALSE, {})>>]
BashSpec == [name |-> "bash", parameters |-> <<Param("command", "String", TRUE, FALSE, {})>>]

\* The registry's map for the run: file_read is registered and enabled, bash
\* is registered and disabled, every other name is not registered.
tools_ ==
    [file_read |-> [enabled |-> TRUE, spec |-> FileReadSpec],
     bash |-> [enabled |-> FALSE, spec |-> BashSpec]]

\* What the model lets an LLM ask for in one response: the (tool name,
\* arguments) of each call. Together the responses ask for an enabled tool with
\* valid and with invalid arguments, a disabled tool and an unregistered one.
Shape(tool_name, arguments) == [tool_name |-> tool_name, arguments |-> arguments]

ResponseShapes ==
    { <<Shape("file_read", {PathArg})>>,
      <<Shape("file_read", {PathArg}), Shape("nope", {PathArg})>>,
      <<Shape("bash", {PathArg}), Shape("file_read", {})>> }

\* What a handler does when it is invoked.
HandlerBehaviours == {"returns_ok", "returns_failure", "throws"}

\* args.contains(name) and args[name] on a JSON object
Contains(args, name) == \E a \in args : a.name = name
ArgOf(args, name) == CHOOSE a \in args : a.name = name

\* a type switch that lets every value through
TypeValid_Any(type, value) == TRUE

\* validate_args, the switch on param.type (tool_registry.cpp lines 171-190)
TypeValid(type, value) ==
    CASE type = "String" -> value.kind = "string"
      [] type = "Integer" -> value.kind = "integer"
      [] type = "Number" -> value.kind \in {"integer", "float"}
      [] type = "Boolean" -> value.kind = "boolean"
      [] type = "Array" -> value.kind = "array"
      [] type = "Object" -> value.kind = "object"

\* validate_args, the second loop from parameter i on (lines 165-211)
RECURSIVE ValidateTypes(_, _, _)
ValidateTypes(parameters, args, i) ==
    IF i > Len(parameters) THEN Ok("")
    ELSE LET param == parameters[i] IN
         IF ~Contains(args, param.name) THEN ValidateTypes(parameters, args, i + 1)
         ELSE LET value == ArgOf(args, param.name) IN
              IF ~TypeValid(param.type, value)
              THEN Err("ToolValidationFailed", "Invalid type for parameter")
              ELSE IF /\ param.enum_values.has /\ value.kind = "string"
                      /\ value.str \notin param.enum_values.values
              THEN Err("ToolValidationFailed", "Invalid enum value for parameter")
              ELSE ValidateTypes(parameters, args, i + 1)

\* ToolRegistry::validate_args (lines 153-216)
validate_args(spec, args) ==
    IF \E i \in 1..Len(spec.parameters) :
          spec.parameters[i].required /\ ~Contains(args, spec.parameters[i].name)
    THEN Err("ToolValidationFailed", "Missing required parameter")
    ELSE ValidateTypes(spec.parameters, args, 1)

\* A handler: a ToolResult, or an exception (kind "throw").
Handler(behaviour) ==
    CASE behaviour = "returns_ok" ->
           [kind |-> "result", success |-> TRUE, content |-> "output", error_message |-> ""]
      [] behaviour = "returns_failure" ->
           [kind |-> "result", success |-> FALSE, content |-> "", error_message |-> "File not found"]
      [] OTHER ->
           [kind |-> "throw", success |-> FALSE, content |-> "", error_message |-> "exception text"]

\* ToolRegistry::execute: Result<ToolResult, Error>
RegistryExecute(call, behaviour) ==
    IF call.tool_name \notin DOMAIN tools_ THEN Err("ToolNotFound", "Tool not found")
    ELSE IF ~tools_[call.tool_name].enabled THEN Err("ToolDisabled", "Tool is disabled")
    ELSE IF validate_args(tools_[call.tool_name].spec, call.arguments).kind = "err"
    THEN validate_args(tools_[call.tool_name].spec, call.arguments)
    ELSE LET r == Handler(behaviour) IN
         IF r.kind = "throw" THEN Err("ToolExecutionFailed", r.error_message)
         ELSE Ok([success |-> r.success, content |-> r.content,
                  error_message |-> r.error_message])

\* ToolExecutor::execute: the registry's result (stats are not part of it)
ExecutorExecute(call, behaviour) == RegistryExecute(call, behaviour)

\* The error text of a failed execution, whichever way it failed.
ErrorTextOf(result) ==
    IF result.kind = "err" THEN result.value ELSE result.value.error_message

ExecutionFailed(result) ==
    result.kind = "err" \/ ~result.value.success

\* --------------------------------------------------------- provider adapters
\* The tool-call ids a provider's parse_response gives the n calls of one
\* response. Claude takes the id of each tool_use block from the API (distinct
\* ids: `issued` calls were issued before); Gemini synthesizes "fc_<index>".
ParseResponseIds(provider, n, issued) ==
    IF provider = "claude"
    THEN [k \in 1..n |-> [p |-> "toolu", n |-> issued + k]]
    ELSE [k \in 1..n |-> [p |-> "fc", n |-> k - 1]]

CallIds(m) == {m.tool_calls[k].id : k \in 1..Len(m.tool_calls)}

\* One formatted outbound entry. calls: the ids of the tool calls the entry
\* carries; result_of: the tool_call_id of the Tool message the entry was made
\* from (NoId for any other entry). Claude puts both on the wire (tool_use id,
\* tool_use_id); a Gemini functionResponse carries the name only, and result_of
\* records which Tool message it stands for.
Entry(role, m) ==
    [role |-> role,
     calls |-> IF m.role = "assistant" THEN [k \in 1..Len(m.tool_calls) |-> m.tool_calls[k].id]
               ELSE <<>>,
     result_of |-> IF m.role = "tool" THEN m.tool_call_id ELSE NoId]

ClaudeFormatMessages(messages) ==
    LET valid_tool_ids ==
            UNION {CallIds(messages[i]) : i \in {j \in 1..Len(messages) : messages[j].role = "assistant"}}
        Keep(m) == /\ m.role # "system"
                   /\ (m.role = "tool" => m.tool_call_id \in valid_tool_ids)
        kept == SelectSeq(messages, Keep)
    IN [i \in 1..Len(kept) |->
          Entry(IF kept[i].role \in {"user", "tool"} THEN "user" ELSE "assistant", kept[i])]

GeminiFormatMessages(messages) ==
    LET Keep(m) == m.role # "system"
        kept == SelectSeq(messages, Keep)
    IN [i \in 1..Len(kept) |->
          Entry(IF kept[i].role = "user" THEN "user" ELSE "model", kept[i])]

FormatMessages(provider, messages) ==
    IF provider = "claude" THEN ClaudeFormatMessages(messages)
    ELSE GeminiFormatMessages(messages)

\* ---------------------------------------------------------------- memory
\* ThreadMemory::get_recent
get_recent(messages, n) ==
    IF n >= Len(messages) THEN messages
    ELSE SubSeq(messages, Len(messages) - n + 1, Len(messages))

\* ContextManager::build_context: the message area of the window
BuildContextMessages(messages) == get_recent(messages, keep_raw_turns * 2)

\* EpisodeBuffer::trim_if_needed
trim_if_needed(eps) ==
    LET max_size == min_episodes_before_training * 10 IN
    IF Len(eps) > max_size THEN SubSeq(eps, Len(eps) - max_size + 1, Len(eps)) ELSE eps

\* EpisodeBuffer::add_episode
BufferAddEpisode(eps, e) == trim_if_needed(Append(eps, e))

\* EpisodeBuffer::has_enough_for_training
has_enough_for_training(eps) == Len(eps) >= min_episodes_before_training

\* ------------------------------------------------------------------ state
VARIABLES
    provider,                  \* the primary provider the gateway was built with
    state,                     \* Orchestrator::state_ (atomic AgentState)
    shutdown_requested,        \* Orchestrator::shutdown_requested_ (atomic bool)
    current_task_description,  \* Orchestrator::current_task_description_
    current_actions,           \* Orchestrator::current_actions_
    current_turn,              \* Orchestrator::current_turn_
    thread,                    \* the session's ThreadMemory messages
    episodic,                  \* episodes stored in episodic memory
    buffer,                    \* EpisodeBuffer::episodes_
    training_in_progress,      \* TRMTrainer::training_in_progress_ (atomic bool)
    stop_requested,            \* TRMTrainer::stop_requested_ (atomic bool)
    trainer,                   \* the worker of training_thread_: its position and epoch
    pc,                        \* each caller's position in process_with_events
    loc,                       \* each caller's locals, result and bookkeeping
    sd_pc,                     \* the position of the thread that calls shutdown()
    sent,                      \* the formatted messages of the latest LLM request
    dispatched,                \* the calls handed to the executor, in order
    issued                     \* counts: invocations, tool calls, client calls

\* The state of the parts that are modelled on their own, each under its own
\* specification below; the orchestrator's steps leave it alone.
VARIABLES
    config_,                   \* ToolExecutor::config_ (ConcurrencyConfig)
    tasks_,                    \* ThreadPool::tasks_: the queued tasks, oldest first
    workers_,                  \* ThreadPool::workers_: the task each worker runs (0: none)
    futures,                   \* execute_batch: the shared state of each call's future
    batch,                     \* execute_batch: its position, calls and results
    primary_provider_,         \* LLMGateway::primary_provider_: is it available
    fallback_provider_,        \* LLMGateway::fallback_provider_: none, or is it available
    llm_call,                  \* one LLM call: its position, what each provider returned
    training_in_progress_,     \* TRMTrainer::training_in_progress_ (atomic bool)
    stop_requested_,           \* TRMTrainer::stop_requested_ (atomic bool)
    training_thread_,          \* TRMTrainer::training_thread_: the run it holds (0: null)
    runs,                      \* the workers spawned so far, each with its position
    starter,                   \* the thread inside start_training_async
    waiter,                    \* the thread inside wait_for_completion
    episodes_,                 \* EpisodeBuffer::episodes_ (oldest first)
    successful_count_,         \* EpisodeBuffer::successful_count_
    failed_count_,             \* EpisodeBuffer::failed_count_
    inserted,                  \* episodes pushed so far, and how many before the last clear()
    session_state_,            \* MemoryManager::session_state_ (its turn counter)
    thread_memory_,            \* MemoryManager::thread_memory_ (its messages)
    compressed_history_,       \* MemoryManager::compressed_history_ (its summary spans)
    disk,                      \* the session's saved state.json and the checkpoints
    last_op                    \* the MemoryManager operation that ran last

batch_vars == <<config_, tasks_, workers_, futures, batch>>
gateway_vars == <<primary_provider_, fallback_provider_, llm_call>>
trainer_vars == <<training_in_progress_, stop_requested_, training_thread_, runs,
                  starter, waiter>>

buffer_vars == <<episodes_, successful_count_, failed_count_, inserted>>

session_vars == <<session_state_, thread_memory_, compressed_history_, disk, last_op>>

aux_vars == <<batch_vars, gateway_vars, trainer_vars, buffer_vars, session_vars>>

\* The values handed to the pure functions that are checked on their own.
VARIABLES
    original,                  \* a Message or an Episode held in memory
    json,                      \* what its to_json() returned (NoJson: not called yet)
    parsed                     \* what from_json() made of that (NoJson: not called yet)

codec_vars == <<original, json, parsed>>

\* The Tool Registry with a thread inside ToolRegistry::execute while tools
\* are registered, unregistered, enabled and disabled.
VARIABLES
    registry,                  \* ToolRegistry::tools_ (an erased entry: registered = FALSE)
    exec                       \* the thread inside execute(): its position and locals

registry_vars == <<registry, exec>>

\* The component mutexes and the threads that take them.
VARIABLES
    owner,                     \* who holds each std::mutex ("free": nobody)
    running                    \* per thread: the operation it is in and how far it is

lock_vars == <<owner, running>>

\* The Memory Manager with a stored session it is asked to resume.
VARIABLES
    files,                     \* sessions/<id>/: the directory and the text of its files
    manager,                   \* current_session_id_, session_state_, thread_memory_, compressed_history_
    called                     \* the last start_session / resume_session call and its Result

resume_vars == <<files, manager, called>>

\* What the Episode Buffer's sampling returned.
VARIABLES
    pairs                      \* the vector sample_contrastive_pairs returned last

\* TRMModel::predict's history boost.
VARIABLES
    recent_actions,            \* the history handed to predict (tool names, oldest first)
    history_scores             \* per tool: the recency score; added: the weight of each action

sample_vars == <<pairs, recent_actions, history_scores>>

\* The ThreadPool with its stop flag, and the executor's statistics.
VARIABLES
    stop_,                     \* ThreadPool::stop_
    stats_,                    \* ToolExecutor::stats_
    submitted                  \* the calls made so far: how each went through the pool

pool_vars == <<stop_, stats_, submitted>>

\* The UI thread that stops the generation.
VARIABLES
    stop_pc                    \* its position in Orchestrator::abort_task

abort_vars == <<stop_pc>>

ext_vars == <<codec_vars, registry_vars, lock_vars, resume_vars, sample_vars, pool_vars,
              abort_vars>>

orch_vars == <<provider, state, shutdown_requested, current_task_description,
               current_actions, current_turn, thread, episodic, buffer,
               training_in_progress, stop_requested, trainer,
               pc, loc, sd_pc, sent, dispatched, issued>>

vars == <<orch_vars, aux_vars, ext_vars>>

late_vars == <<sample_vars, pool_vars, abort_vars>>
codec_rest == <<orch_vars, aux_vars, registry_vars, lock_vars, resume_vars, late_vars>>
registry_rest == <<orch_vars, aux_vars, codec_vars, lock_vars, resume_vars, late_vars>>
lock_rest == <<orch_vars, aux_vars, codec_vars, registry_vars, resume_vars, late_vars>>
resume_rest == <<orch_vars, aux_vars, codec_vars, registry_vars, lock_vars, late_vars>>
sample_rest == <<orch_vars, aux_vars, codec_vars, registry_vars, lock_vars, resume_vars,
                 pool_vars, abort_vars>>
pool_rest == <<orch_vars, gateway_vars, trainer_vars, buffer_vars, session_vars,
               config_, futures, batch,
               codec_vars, registry_vars, lock_vars, resume_vars, sample_vars, abort_vars>>

task_vars == <<current_task_description, current_actions, current_turn>>
trm_vars == <<episodic, buffer, training_in_progress, stop_requested, trainer>>

InitLoc ==
    [input |-> "", calls |-> <<>>, idx |-> 0, final_response |-> "",
     task_complete |-> FALSE, result |-> None, after_shutdown |-> FALSE,
     llm_calls |-> 0, tool_turns |-> 0, appended |-> 0]

\* The state after the constructor and initialize(), with an active session.
OrchInit ==
    /\ provider \in Providers
    /\ state = "Idle"
    /\ shutdown_requested = FALSE
    /\ current_task_description = ""
    /\ current_actions = <<>>
    /\ current_turn = 0
    /\ thread = <<>>
    /\ episodic = <<>>
    /\ buffer = <<>>
    /\ training_in_progress = FALSE
    /\ stop_requested = FALSE
    /\ trainer = [pc |-> "none", epoch |-> 0]
    /\ pc = [c \in Callers |-> "idle"]
    /\ loc = [c \in Callers |-> InitLoc]
    /\ sd_pc = "idle"
    /\ sent = <<>>
    /\ dispatched = <<>>
    /\ issued = [invocations |-> 0, tool_calls |-> 0, client_calls |-> 0]

\* The executor after its constructor: an empty queue, every worker waiting
BatchInit ==
    /\ tasks_ = <<>>
    /\ workers_ = [w \in 1..MaxThreadPoolSize |-> 0]
    /\ futures = <<>>
    /\ batch = [pc |-> "idle", calls |-> <<>>, results |-> <<>>, returned |-> <<>>,
                completed |-> <<>>, count |-> 0]

\* No LLM call under way.
GatewayInit ==
    llm_call = [pc |-> "idle", op |-> "", primary |-> "", fallback |-> "",
                result |-> "", invoked |-> <<>>, count |-> 0]

\* The trainer after its constructor: no worker, both flags false
TrainerInit ==
    /\ training_in_progress_ = FALSE
    /\ stop_requested_ = FALSE
    /\ training_thread_ = 0
    /\ runs = <<>>
    /\ starter = [pc |-> "idle", old |-> 0, live_at_call |-> FALSE, spawned |-> FALSE,
                  result |-> "", count |-> 0]
    /\ waiter = [pc |-> "idle", target |-> 0]

\* An empty Episode Buffer (EpisodeBuffer::EpisodeBuffer)
BufferInit ==
    /\ episodes_ = <<>>
    /\ successful_count_ = 0
    /\ failed_count_ = 0
    /\ inserted = [total |-> 0, before_clear |-> 0]

\* A session just started by MemoryManager::start_session
SessionInit ==
    /\ session_state_ = [conversation_turn |-> 0]
    /\ thread_memory_ = <<>>
    /\ compressed_history_ = <<>>
    /\ disk = [state_json |-> [conversation_turn |-> 0], checkpoints |-> <<>>]
    /\ last_op = [name |-> "start_session", turn_before |-> 0, appended |-> 0, id |-> 0,
                  ok |-> {}]

\* Nothing handed to a pure function yet
CodecInit ==
    /\ original = NoJson
    /\ json = NoJson
    /\ parsed = NoJson

NoTool == [name |-> "", parameters |-> <<>>]

\* No execute() call under way
ExecIdle ==
    [pc |-> "idle", id |-> "", args |-> {}, tool |-> NoTool,
     found |-> FALSE, enabled |-> FALSE, validation |-> None, invoked |-> FALSE,
     result |-> None]

\* The registry after the built-in tools are registered: tools_ above
RegistryInit ==
    /\ registry = [id \in DOMAIN tools_ |->
                      [registered |-> TRUE, enabled |-> tools_[id].enabled,
                       spec |-> tools_[id].spec]]
    /\ exec = ExecIdle

Mutexes == {"registry", "stats", "buffer"}
LockThreads == {"orchestrator", "worker", "trainer", "client"}

\* Every mutex free, every thread outside the components
LockInit ==
    /\ owner = [m \in Mutexes |-> "free"]
    /\ running = [t \in LockThreads |-> [op |-> <<>>, at |-> 1]]

\* No file of the session directory written
NoFile == [exists |-> FALSE, text |-> <<>>]

NoFiles ==
    [dir |-> FALSE, state_json |-> NoFile, thread_jsonl |-> NoFile,
     history_json |-> NoFile]

\* MemoryManager::MemoryManager (memory_manager.cpp lines 117-126): the four
\* std::optional members are empty
\* (an empty optional is <<>>, an engaged one <<v>>)
NoSession ==
    [current_session_id_ |-> <<>>, session_state_ |-> <<>>,
     thread_memory_ |-> <<>>, compressed_history_ |-> <<>>]

NoCall ==
    [name |-> "none", id |-> "", ok |-> TRUE, code |-> "", before |-> NoSession,
     after_failure |-> FALSE]

ResumeInit ==
    /\ files = NoFiles
    /\ manager = NoSession
    /\ called = NoCall

\* Nothing sampled yet
NoScores == [scores |-> <<>>, added |-> <<>>]

\* Nothing sampled or predicted yet
SampleInit ==
    /\ pairs = <<>>
    /\ recent_actions = <<>>
    /\ history_scores = NoScores

\* A running pool nothing was submitted to, and Stats{}
PoolInit ==
    /\ stop_ = FALSE
    /\ stats_ = [total_executions |-> 0, successful |-> 0, failed |-> 0, timeouts |-> 0]
    /\ submitted = <<>>

\* The UI thread outside abort_task
AbortInit ==
    /\ stop_pc = "idle"

LateInit ==
    /\ SampleInit
    /\ PoolInit
    /\ AbortInit

ExtInit ==
    /\ CodecInit
    /\ RegistryInit
    /\ LockInit
    /\ ResumeInit
    /\ LateInit

\* The orchestrator, executor, gateway, trainer, buffer and session as
\* constructed, for the specifications that leave all of them alone
AuxInit ==
    /\ OrchInit
    /\ provider = "claude"
    /\ config_ = [thread_pool_size |-> 1, max_parallel_tools |-> 1]
    /\ BatchInit
    /\ primary_provider_ = "available"
    /\ fallback_provider_ = "none"
    /\ GatewayInit
    /\ TrainerInit
    /\ BufferInit
    /\ SessionInit

Init ==
    /\ OrchInit
    /\ config_ = [thread_pool_size |-> 1, max_parallel_tools |-> 1]
    /\ BatchInit
    /\ primary_provider_ = "available"
    /\ fallback_provider_ = "none"
    /\ GatewayInit
    /\ TrainerInit
    /\ BufferInit
    /\ SessionInit
    /\ ExtInit
\* ------------------------------------------------- process_with_events
\* a process() that does not look at the shutdown flag
ShutdownCheck_Never(flag) == FALSE

\* if (shutdown_requested_.load())
ShutdownCheck(flag) == flag

\* a plain store in place of the compare-and-set
compare_exchange_strong_Blind(current, expected) == TRUE

\* state_.compare_exchange_strong(expected = Idle, Processing): does it succeed
compare_exchange_strong(current, expected) == current = expected

\* a loop that only stops on a tool-free response
LoopContinues_NoLimit(task_complete, turn) == ~task_complete

\* while (!task_complete && current_turn_ < config_.max_turns_per_task)
LoopContinues(task_complete, turn) == ~task_complete /\ turn < max_turns_per_task

\* the assistant message is not saved before the tools run
AddAssistantWithCalls_Skipped(messages, content, calls) == messages

\* memory_.add_message(assistant_msg) with assistant_msg.tool_calls = response.tool_calls
AddAssistantWithCalls(messages, content, calls) ==
    Append(messages, [MessageAssistant(content) EXCEPT !.tool_calls = calls])

\* execute_tool_calls: output = success ? result.value().content : result.error().message
ToolOutput(result) ==
    IF result.kind = "ok" THEN result.value.content ELSE result.value

\* a tool message is added only for a call whose execution returned Ok
AddToolResult_OnlyOnOk(messages, call, result) ==
    IF result.kind = "ok"
    THEN Append(messages, MessageToolResult(call.id, result.value.content))
    ELSE messages

\* execute_tool_calls: memory_.add_message(Message::tool_result(call.id, output))
AddToolResult(messages, call, result) ==
    Append(messages, MessageToolResult(call.id, ToolOutput(result)))

\* record_action(call.tool_name, call.arguments, output, success = result.is_ok())
record_action(actions, call, result) ==
    Append(actions, [tool |-> call.tool_name, success |-> result.kind = "ok"])

Return(c, r) ==
    /\ pc' = [pc EXCEPT ![c] = "idle"]
    /\ loc' = [loc EXCEPT ![c].result = r]

\* A caller enters process()/process_with_events().
P_Invoke(c) ==
    /\ pc[c] = "idle"
    /\ issued.invocations < MaxInvocations
    /\ \E input \in Inputs :
         loc' = [loc EXCEPT ![c] = [InitLoc EXCEPT !.input = input,
                                                   !.after_shutdown = (sd_pc # "idle")]]
    /\ pc' = [pc EXCEPT ![c] = "begin"]
    /\ issued' = [issued EXCEPT !.invocations = @ + 1]
    /\ UNCHANGED <<aux_vars, ext_vars, provider, state, shutdown_requested, task_vars, thread, trm_vars,
                   sd_pc, sent, dispatched>>

\* lines 70-75
P_CheckShutdown(c) ==
    /\ pc[c] = "begin"
    /\ IF ShutdownCheck(shutdown_requested)
       THEN Return(c, Err("InvalidState", "Agent is shutting down"))
       ELSE pc' = [pc EXCEPT ![c] = "cas"] /\ UNCHANGED loc
    /\ UNCHANGED <<aux_vars, ext_vars, provider, state, shutdown_requested, task_vars, thread, trm_vars,
                   sd_pc, sent, dispatched, issued>>

\* lines 77-83
P_CompareExchange(c) ==
    /\ pc[c] = "cas"
    /\ IF compare_exchange_strong(state, "Idle")
       THEN /\ state' = "Processing"
            /\ pc' = [pc EXCEPT ![c] = "start"]
            /\ UNCHANGED loc
       ELSE /\ Return(c, Err("InvalidState", "Agent is busy"))
            /\ UNCHANGED state
    /\ UNCHANGED <<aux_vars, ext_vars, provider, shutdown_requested, task_vars, thread, trm_vars,
                   sd_pc, sent, dispatched, issued>>

\* lines 85-99: start task tracking, add the user message
P_StartTask(c) ==
    /\ pc[c] = "start"
    /\ current_task_description' = loc[c].input
    /\ current_actions' = <<>>
    /\ current_turn' = 0
    /\ thread' = Append(thread, MessageUser(loc[c].input))
    /\ loc' = [loc EXCEPT ![c].appended = @ + 1]
    /\ pc' = [pc EXCEPT ![c] = "loop"]
    /\ UNCHANGED <<aux_vars, ext_vars, provider, state, shutdown_requested, trm_vars, sd_pc, sent,
                   dispatched, issued>>

\* lines 102-106 and call_llm: the request leaves for the primary provider
P_CallLLM(c) ==
    /\ pc[c] = "loop"
    /\ LoopContinues(loc[c].task_complete, current_turn)
    /\ current_turn' = current_turn + 1
    /\ sent' = FormatMessages(provider, BuildContextMessages(thread))
    /\ loc' = [loc EXCEPT ![c].llm_calls = @ + 1]
    /\ pc' = [pc EXCEPT ![c] = "await"]
    /\ UNCHANGED <<aux_vars, ext_vars, provider, state, shutdown_requested, current_task_description,
                   current_actions, thread, trm_vars, sd_pc, dispatched, issued>>

\* lines 107-110: the LLM call failed
P_LLMError(c) ==
    /\ pc[c] = "await"
    /\ state' = "Idle"
    /\ \E code \in {"LLMRateLimited", "LLMApiKeyMissing"} : Return(c, Err(code, "llm error"))
    /\ UNCHANGED <<aux_vars, ext_vars, provider, shutdown_requested, task_vars, thread, trm_vars,
                   sd_pc, sent, dispatched, issued>>

\* lines 115-132: a response with tool calls
P_LLMToolCalls(c) ==
    /\ pc[c] = "await"
    /\ \E shapes \in ResponseShapes :
         LET n == Len(shapes)
             ids == ParseResponseIds(provider, n, issued.tool_calls)
             calls == [k \in 1..n |-> [id |-> ids[k],
                                       tool_name |-> shapes[k].tool_name,
                                       arguments |-> shapes[k].arguments]]
         IN /\ issued.tool_calls + n <= MaxToolCalls
            /\ thread' = AddAssistantWithCalls(thread, "", calls)
            /\ loc' = [loc EXCEPT ![c].calls = calls, ![c].idx = 1,
                                  ![c].tool_turns = @ + 1,
                                  ![c].appended = @ + (Len(thread') - Len(thread))]
            /\ issued' = [issued EXCEPT !.tool_calls = @ + n]
    /\ state' = "ExecutingTool"
    /\ pc' = [pc EXCEPT ![c] = "exec"]
    /\ UNCHANGED <<aux_vars, ext_vars, provider, shutdown_requested, task_vars, trm_vars, sd_pc, sent,
                   dispatched>>

\* lines 140-150: a response without tool calls
P_LLMFinal(c) ==
    /\ pc[c] = "await"
    /\ \E content \in {"", "answer"} :
         loc' = [loc EXCEPT ![c].final_response = content, ![c].task_complete = TRUE]
    /\ pc' = [pc EXCEPT ![c] = "loop"]
    /\ UNCHANGED <<aux_vars, ext_vars, provider, state, shutdown_requested, task_vars, thread, trm_vars,
                   sd_pc, sent, dispatched, issued>>

\* execute_tool_calls, one iteration of its loop (lines 265-339)
P_ExecuteToolCall(c) ==
    /\ pc[c] = "exec"
    /\ loc[c].idx <= Len(loc[c].calls)
    /\ \E behaviour \in HandlerBehaviours :
         LET call == loc[c].calls[loc[c].idx]
             result == ExecutorExecute(call, behaviour)
         IN /\ dispatched' = Append(dispatched,
                                    [call |-> call, k |-> loc[c].idx, at |-> Len(thread),
                                     result |-> result])
            /\ current_actions' = record_action(current_actions, call, result)
            /\ thread' = AddToolResult(thread, call, result)
            /\ loc' = [loc EXCEPT ![c].idx = @ + 1,
                                  ![c].appended = @ + (Len(thread') - Len(thread))]
    /\ UNCHANGED <<aux_vars, ext_vars, provider, state, shutdown_requested, current_task_description,
                   current_turn, trm_vars, pc, sd_pc, sent, issued>>

\* line 134: state_.store(AgentState::Processing)
P_ToolsDone(c) ==
    /\ pc[c] = "exec"
    /\ loc[c].idx > Len(loc[c].calls)
    /\ state' = "Processing"
    /\ pc' = [pc EXCEPT ![c] = "loop"]
    /\ UNCHANGED <<aux_vars, ext_vars, provider, shutdown_requested, task_vars, thread, trm_vars, loc,
                   sd_pc, sent, dispatched, issued>>

\* lines 153-165: the loop is left; the final response is added to memory
P_LoopExit(c) ==
    /\ pc[c] = "loop"
    /\ ~LoopContinues(loc[c].task_complete, current_turn)
    /\ IF loc[c].final_response # ""
       THEN /\ thread' = Append(thread, MessageAssistant(loc[c].final_response))
            /\ loc' = [loc EXCEPT ![c].appended = @ + 1]
       ELSE UNCHANGED <<thread, loc>>
    /\ pc' = [pc EXCEPT ![c] = "check_training"]
    /\ UNCHANGED <<aux_vars, ext_vars, provider, state, shutdown_requested, task_vars, trm_vars,
                   sd_pc, sent, dispatched, issued>>

\* TRMTrainer::should_start_training
should_start_training == ~training_in_progress /\ has_enough_for_training(buffer)

\* check_and_start_training up to state_.store(AgentState::Training) (lines
\* 395-407); config_.auto_train_trm has its default, true
P_CheckTraining(c) ==
    /\ pc[c] = "check_training"
    /\ IF should_start_training
       THEN state' = "Training" /\ pc' = [pc EXCEPT ![c] = "start_training"]
       ELSE UNCHANGED state /\ pc' = [pc EXCEPT ![c] = "return"]
    /\ UNCHANGED <<aux_vars, ext_vars, provider, shutdown_requested, task_vars, thread, trm_vars, loc,
                   sd_pc, sent, dispatched, issued>>

\* TRMTrainer::start_training_async (trm_trainer.cpp lines 30-56)
P_StartTrainingAsync(c) ==
    /\ pc[c] = "start_training"
    /\ IF training_in_progress
       THEN UNCHANGED <<training_in_progress, stop_requested, trainer>>
       ELSE IF ~has_enough_for_training(buffer)
       THEN UNCHANGED <<training_in_progress, stop_requested, trainer>>
       ELSE /\ training_in_progress' = TRUE
            /\ stop_requested' = FALSE
            /\ trainer' = [pc |-> "run", epoch |-> 0]
    /\ pc' = [pc EXCEPT ![c] = "return"]
    /\ UNCHANGED <<aux_vars, ext_vars, provider, state, shutdown_requested, task_vars, thread, episodic,
                   buffer, loc, sd_pc, sent, dispatched, issued>>

\* lines 172-173
P_Return(c) ==
    /\ pc[c] = "return"
    /\ state' = "Idle"
    /\ Return(c, Ok(loc[c].final_response))
    /\ UNCHANGED <<aux_vars, ext_vars, provider, shutdown_requested, task_vars, thread, trm_vars,
                   sd_pc, sent, dispatched, issued>>

\* ------------------------------------------------------------- shutdown()
\* lines 177-181: shutdown_requested_.store(true); trm_trainer_->stop_training()
S_Request ==
    /\ sd_pc = "idle"
    /\ shutdown_requested' = TRUE
    /\ stop_requested' = TRUE
    /\ sd_pc' = "requested"
    /\ UNCHANGED <<aux_vars, ext_vars, provider, state, task_vars, thread, episodic, buffer,
                   training_in_progress, trainer, pc, loc, sent, dispatched, issued>>

\* lines 182-185: wait_for_completion() joins the worker; state_.store(Shutdown)
S_Finish ==
    /\ sd_pc = "requested"
    /\ trainer.pc \in {"none", "exited"}
    /\ state' = "Shutdown"
    /\ sd_pc' = "done"
    /\ UNCHANGED <<aux_vars, ext_vars, provider, shutdown_requested, task_vars, thread, trm_vars, pc, loc,
                   sent, dispatched, issued>>

\* ------------------------------------------- abort_task / complete_task
\* Calls from a client thread; each is taken as one step between the steps of
\* the turn loop.
\* finalize_episode (lines 360-393): the episode it builds
\* an episode that leaves the accumulated actions out
NewEpisode_NoActions(success) ==
    [task_description |-> current_task_description, actions |-> <<>>, success |-> success]

NewEpisode(success) ==
    [task_description |-> current_task_description,
     actions |-> current_actions,
     success |-> success]

finalize_episode(success) ==
    IF current_task_description = ""
    THEN UNCHANGED <<episodic, buffer, current_task_description, current_actions>>
    ELSE /\ episodic' = Append(episodic, NewEpisode(success))
         /\ buffer' = BufferAddEpisode(buffer, NewEpisode(success))
         /\ current_task_description' = ""
         /\ current_actions' = <<>>

\* abort_task (lines 212-216), the client having made fewer than max calls
AbortTaskWithin(max) ==
    /\ issued.client_calls < max
    /\ IF current_task_description = ""
       THEN /\ current_actions' = <<>>
            /\ UNCHANGED <<episodic, buffer, current_task_description>>
       ELSE finalize_episode(FALSE)
    /\ issued' = [issued EXCEPT !.client_calls = @ + 1]
    /\ UNCHANGED <<aux_vars, ext_vars, provider, state, shutdown_requested, current_turn, thread,
                   training_in_progress, stop_requested, trainer,
                   pc, loc, sd_pc, sent, dispatched>>

AbortTask == AbortTaskWithin(MaxClientCalls)

\* complete_task (lines 202-210), the client having made fewer than max calls
CompleteTaskWithin(max) ==
    /\ issued.client_calls < max
    /\ \E success \in BOOLEAN : finalize_episode(success)
    /\ issued' = [issued EXCEPT !.client_calls = @ + 1]
    /\ UNCHANGED <<aux_vars, ext_vars, provider, state, shutdown_requested, current_turn, thread,
                   training_in_progress, stop_requested, trainer,
                   pc, loc, sd_pc, sent, dispatched>>

CompleteTask == CompleteTaskWithin(MaxClientCalls)

\* ------------------------------------------------------ the trainer worker
\* train_loop: one epoch (trm_trainer.cpp lines 103-135)
T_Epoch ==
    /\ trainer.pc = "run"
    /\ trainer.epoch < epochs /\ ~stop_requested
    /\ trainer' = [trainer EXCEPT !.epoch = @ + 1]
    /\ UNCHANGED <<aux_vars, ext_vars, provider, state, shutdown_requested, task_vars, thread, episodic,
                   buffer, training_in_progress, stop_requested, pc, loc, sd_pc,
                   sent, dispatched, issued>>

\* train_loop: the loop is left, training_in_progress_.store(false), the last
\* callback runs and the worker exits (lines 137-144), taken as one step
T_Finish ==
    /\ trainer.pc = "run"
    /\ ~(trainer.epoch < epochs /\ ~stop_requested)
    /\ training_in_progress' = FALSE
    /\ trainer' = [trainer EXCEPT !.pc = "exited"]
    /\ UNCHANGED <<aux_vars, ext_vars, provider, state, shutdown_requested, task_vars, thread, episodic,
                   buffer, stop_requested, pc, loc, sd_pc, sent, dispatched, issued>>

\* ------------------------------------------------------------ specification
Process(c) ==
    \/ P_Invoke(c)
    \/ P_CheckShutdown(c)
    \/ P_CompareExchange(c)
    \/ P_StartTask(c)
    \/ P_CallLLM(c)
    \/ P_LLMError(c)
    \/ P_LLMToolCalls(c)
    \/ P_LLMFinal(c)
    \/ P_ExecuteToolCall(c)
    \/ P_ToolsDone(c)
    \/ P_LoopExit(c)
    \/ P_CheckTraining(c)
    \/ P_StartTrainingAsync(c)
    \/ P_Return(c)

Next ==
    \/ \E c \in Callers : Process(c)
    \/ S_Request
    \/ S_Finish
    \/ AbortTask
    \/ CompleteTask
    \/ T_Epoch
    \/ T_Finish

Spec == Init /\ [][Next]_vars

\* ------------------------------------------------------------------ claims
InTurnLoop(c) ==
    pc[c] \in {"start", "loop", "await", "exec", "check_training", "start_training", "return"}

C1_AtMostOneInLoop == Cardinality({c \in Callers : InTurnLoop(c)}) <= 1

C1_RejectedStep ==
    \A c \in Callers :
        (/\ pc[c] = "cas"
         /\ pc'[c] # pc[c]
         /\ \E d \in Callers \ {c} : InTurnLoop(d))
        => /\ pc'[c] = "idle"
           /\ loc'[c].result = Err("InvalidState", "Agent is busy")
           /\ thread' = thread
           /\ task_vars' = task_vars

\* C1: at most one process() invocation is inside the turn loop at any time,
\* and an invocation whose compare-and-set runs while another one is inside the
\* loop returns InvalidState, appends no message and leaves the task
\* description, the action list and the turn number as they were.
C1_SingleTurnLoop == []C1_AtMostOneInLoop /\ [][C1_RejectedStep]_vars

C1_Witness ==
    \E c \in Callers : \E d \in Callers \ {c} :
        /\ InTurnLoop(d)
        /\ pc[c] = "idle"
        /\ loc[c].result = Err("InvalidState", "Agent is busy")

\* C2: when a call is handed to the executor, the thread ends with the
\* Assistant message carrying that call followed by the Tool messages of the
\* calls before it in the response, and the call's own Tool message comes next:
\* the Assistant message precedes every dispatch and the Tool messages follow
\* in call order.
C2_AssistantBeforeDispatch ==
    \A i \in 1..Len(dispatched) :
        LET d == dispatched[i]
            a == d.at - d.k + 1
        IN /\ a >= 1
           /\ thread[a].role = "assistant"
           /\ Len(thread[a].tool_calls) >= d.k
           /\ thread[a].tool_calls[d.k] = d.call
           /\ \A j \in 1..(d.k - 1) :
                /\ thread[a + j].role = "tool"
                /\ thread[a + j].tool_call_id = thread[a].tool_calls[j].id
           /\ Len(thread) > d.at
           /\ thread[d.at + 1].role = "tool"
           /\ thread[d.at + 1].tool_call_id = d.call.id

C2_Witness ==
    \E i \in 1..Len(dispatched) : dispatched[i].k = 2

AssistantsWithCalls ==
    {i \in 1..Len(thread) : thread[i].role = "assistant" /\ thread[i].tool_calls # <<>>}

NextAssistant(i) ==
    LET later == {j \in (i + 1)..Len(thread) : thread[j].role = "assistant"}
    IN IF later = {} THEN Len(thread) + 1
       ELSE CHOOSE j \in later : \A k \in later : j <= k

\* The calls of the Assistant message at i that have been executed: all of
\* them, unless execute_tool_calls is still working through that message.
ExecutedCalls(i) ==
    IF \E c \in Callers : pc[c] = "exec" /\ \A j \in AssistantsWithCalls : j <= i
    THEN LET c == CHOOSE c \in Callers : pc[c] = "exec" IN 1..(loc[c].idx - 1)
    ELSE 1..Len(thread[i].tool_calls)

\* C3: every executed ToolCall of every Assistant message in the thread is
\* referenced by exactly one Tool message between that Assistant message and
\* the next one, whatever the tools returned and whatever abort_task() did.
C3_EveryCallSatisfiedOnce ==
    \A i \in AssistantsWithCalls :
        \A k \in ExecutedCalls(i) :
            Cardinality({j \in (i + 1)..(NextAssistant(i) - 1) :
                            /\ thread[j].role = "tool"
                            /\ thread[j].tool_call_id = thread[i].tool_calls[k].id}) = 1

C3_Witness ==
    /\ \A c \in Callers : pc[c] # "exec"
    /\ issued.client_calls > 0
    /\ \E i \in AssistantsWithCalls : Len(thread[i].tool_calls) = 2
    /\ \E i \in 1..Len(dispatched) : dispatched[i].result.kind = "err"
    /\ \E i \in 1..Len(dispatched) : dispatched[i].result.kind = "ok"

\* C4: in every formatted outbound sequence each Tool-result entry is preceded
\* by an Assistant entry that carries a tool call with the same id.
C4_NoOrphanToolResult ==
    \A i \in 1..Len(sent) :
        sent[i].result_of # NoId =>
            \E j \in 1..(i - 1) :
                /\ sent[j].role \in {"assistant", "model"}
                /\ \E k \in 1..Len(sent[j].calls) : sent[j].calls[k] = sent[i].result_of

\* C5: the Tool message of every call whose execution failed holds the error
\* text (and the turn loop goes on).
C5_ToolMessageHoldsError ==
    \A i \in 1..Len(dispatched) :
        LET d == dispatched[i] IN
        ExecutionFailed(d.result) => thread[d.at + 1].content = ErrorTextOf(d.result)

\* C6: a process() invocation made after shutdown() was called makes no LLM
\* call, appends no message and returns an error.
C6_NoTurnAfterShutdown ==
    \A c \in Callers :
        loc[c].after_shutdown =>
            /\ pc[c] \in {"begin", "idle"}
            /\ loc[c].llm_calls = 0
            /\ loc[c].appended = 0
            /\ pc[c] = "idle" => loc[c].result.kind = "err"

C6_Witness ==
    \E c \in Callers : \E d \in Callers \ {c} :
        /\ loc[c].after_shutdown
        /\ pc[c] = "idle"
        /\ loc[c].result = Err("InvalidState", "Agent is shutting down")
        /\ InTurnLoop(d)

\* C7: once the state is Shutdown it never changes again.
C7_ShutdownIsTerminal == [][state = "Shutdown" => state' = "Shutdown"]_vars

AgentStates == {"Idle", "Processing", "ExecutingTool", "Training", "Responding", "Shutdown"}

LegalTransitions ==
    {<<"Idle", "Processing">>, <<"Processing", "ExecutingTool">>,
     <<"ExecutingTool", "Processing">>, <<"Processing", "Responding">>,
     <<"Responding", "Idle">>, <<"Idle", "Training">>}
    \cup {<<s, "Shutdown">> : s \in AgentStates}

\* C8: every change of the orchestrator state is a legal transition.
C8_OnlyLegalTransitions == [][state' # state => <<state, state'>> \in LegalTransitions]_vars

\* C9: an invocation makes at most max_turns_per_task LLM calls, and one whose
\* LLM calls all came back with tool calls returns Ok.
C9_BoundedTurns ==
    \A c \in Callers :
        /\ loc[c].llm_calls <= max_turns_per_task
        /\ (pc[c] = "idle" /\ loc[c].tool_turns = max_turns_per_task)
               => loc[c].result.kind = "ok"

C9_Witness ==
    \E c \in Callers :
        /\ pc[c] = "idle"
        /\ loc[c].tool_turns = max_turns_per_task
        /\ loc[c].llm_calls = max_turns_per_task
        /\ loc[c].result.kind = "ok"

\* C10: when process() has returned Ok, an Episode with the user input as its
\* task description is in episodic memory and in the Episode Buffer.
C10_EpisodePerCompletedTask ==
    \A c \in Callers :
        (pc[c] = "idle" /\ loc[c].result.kind = "ok") =>
            /\ \E i \in 1..Len(episodic) : episodic[i].task_description = loc[c].input
            /\ \E i \in 1..Len(buffer) : buffer[i].task_description = loc[c].input

\* ======================================================================
\* ToolExecutor::execute_batch and its ThreadPool (src/src/tools/tool_executor.cpp)
\* ======================================================================
NoResult == [tool_call_id |-> NoId, success |-> FALSE, content |-> "", error_message |-> "",
             ready |-> FALSE]

\* The task execute_batch submits for one call (lines 96-108): execute(call),
\* which stamps an Ok result with call.id (line 71), or a failed ToolResult
\* made from the error.
BatchTask(call, behaviour) ==
    LET result == ExecutorExecute(call, behaviour) IN
    IF result.kind = "ok"
    THEN [tool_call_id |-> call.id, success |-> result.value.success,
          content |-> result.value.content,
          error_message |-> result.value.error_message, ready |-> TRUE]
    ELSE [tool_call_id |-> call.id, success |-> FALSE, content |-> "",
          error_message |-> result.value, ready |-> TRUE]

\* results are taken in the order the handlers finished
FutureOf_CompletionOrder(i, completed) ==
    IF i <= Len(completed) THEN completed[i] ELSE i

\* for (auto& future : futures) results.push_back(future.get()): the future
\* the i-th get() reads (lines 116-118)
FutureOf(i, completed) == i

\* Calls submitted to the pool and not yet finished: queued or being run.
InFlight ==
    Len(tasks_) + Cardinality({w \in 1..config_.thread_pool_size : workers_[w] # 0})

\* execute_batch is entered with a call list (lines 80-93); an empty list
\* returns at once.
execute_batch_Call ==
    /\ batch.pc \in {"idle", "returned"}
    /\ batch.count < MaxBatches
    /\ \E shapes \in ResponseShapes \cup {<<>>} :
         LET n == Len(shapes)
             ids == ParseResponseIds("claude", n, 0)
             calls == [k \in 1..n |-> [id |-> ids[k], tool_name |-> shapes[k].tool_name,
                                       arguments |-> shapes[k].arguments]]
         IN batch' = [pc |-> IF n = 0 THEN "returned" ELSE "submit",
                      calls |-> calls, results |-> <<>>, returned |-> <<>>,
                      completed |-> <<>>, count |-> batch.count + 1]
    /\ futures' = <<>>
    /\ UNCHANGED <<orch_vars, ext_vars, gateway_vars, trainer_vars, buffer_vars, session_vars, config_, tasks_, workers_>>

\* pool_->submit for the next call (lines 95-110, ThreadPool::submit)
execute_batch_Submit ==
    /\ batch.pc = "submit"
    /\ Len(futures) < Len(batch.calls)
    /\ tasks_' = Append(tasks_, Len(futures) + 1)
    /\ futures' = Append(futures, NoResult)
    /\ UNCHANGED <<orch_vars, ext_vars, gateway_vars, trainer_vars, buffer_vars, session_vars, config_, workers_, batch>>

\* every call is submitted: the collecting loop begins (line 112)
execute_batch_Submitted ==
    /\ batch.pc = "submit"
    /\ Len(futures) = Len(batch.calls)
    /\ batch' = [batch EXCEPT !.pc = "collect"]
    /\ UNCHANGED <<orch_vars, ext_vars, gateway_vars, trainer_vars, buffer_vars, session_vars, config_, tasks_, workers_, futures>>

\* one future.get() (lines 116-118): blocks until that future is ready
execute_batch_Get ==
    /\ batch.pc = "collect"
    /\ Len(batch.results) < Len(batch.calls)
    /\ LET f == FutureOf(Len(batch.results) + 1, batch.completed) IN
         /\ futures[f].ready
         /\ batch' = [batch EXCEPT !.results = Append(@, futures[f])]
    /\ UNCHANGED <<orch_vars, ext_vars, gateway_vars, trainer_vars, buffer_vars, session_vars, config_, tasks_, workers_, futures>>

\* return results (line 120)
execute_batch_Return ==
    /\ batch.pc = "collect"
    /\ Len(batch.results) = Len(batch.calls)
    /\ batch' = [batch EXCEPT !.pc = "returned", !.returned = batch.results]
    /\ UNCHANGED <<orch_vars, ext_vars, gateway_vars, trainer_vars, buffer_vars, session_vars, config_, tasks_, workers_, futures>>

\* A waiting worker takes the oldest task (ThreadPool::ThreadPool, lines 12-24).
Worker_Take(w) ==
    /\ workers_[w] = 0
    /\ tasks_ # <<>>
    /\ workers_' = [workers_ EXCEPT ![w] = Head(tasks_)]
    /\ tasks_' = Tail(tasks_)
    /\ UNCHANGED <<orch_vars, ext_vars, gateway_vars, trainer_vars, buffer_vars, session_vars, config_, futures, batch>>

\* The worker runs its task to the end (line 26): the handler does whatever it
\* does and the future becomes ready.
Worker_Run(w) ==
    /\ workers_[w] # 0
    /\ \E behaviour \in HandlerBehaviours :
         futures' = [futures EXCEPT ![workers_[w]] =
                        BatchTask(batch.calls[workers_[w]], behaviour)]
    /\ batch' = [batch EXCEPT !.completed = Append(@, workers_[w])]
    /\ workers_' = [workers_ EXCEPT ![w] = 0]
    /\ UNCHANGED <<orch_vars, ext_vars, gateway_vars, trainer_vars, buffer_vars, session_vars, config_, tasks_>>

InitBatch ==
    /\ OrchInit
    /\ provider = "claude"
    /\ config_ \in [thread_pool_size : 1..MaxThreadPoolSize,
                    max_parallel_tools : 1..MaxParallelTools]
    /\ BatchInit
    /\ primary_provider_ = "available"
    /\ fallback_provider_ = "none"
    /\ GatewayInit
    /\ TrainerInit
    /\ BufferInit
    /\ SessionInit
    /\ ExtInit

NextBatch ==
    \/ execute_batch_Call
    \/ execute_batch_Submit
    \/ execute_batch_Submitted
    \/ execute_batch_Get
    \/ execute_batch_Return
    \/ \E w \in 1..config_.thread_pool_size : Worker_Take(w) \/ Worker_Run(w)

SpecBatch == InitBatch /\ [][NextBatch]_vars

\* C11: the list execute_batch returns has one result per call, and the i-th
\* result is the one of the i-th call (it carries that call's id), whatever
\* order the workers took and finished the handlers in.
C11_ResultsInInputOrder ==
    /\ \A i \in 1..Len(batch.results) :
         /\ batch.results[i].ready
         /\ batch.results[i].tool_call_id = batch.calls[i].id
    /\ batch.pc = "returned" =>
         /\ Len(batch.returned) = Len(batch.calls)
         /\ batch.returned = batch.results

C11_Witness ==
    /\ batch.pc = "returned"
    /\ Len(batch.returned) = 2
    /\ batch.completed = <<2, 1>>

\* C12: at no time are more than max_parallel_tools of the batch's calls in
\* flight.
C12_AtMostMaxParallelInFlight == InFlight <= config_.max_parallel_tools

\* ======================================================================
\* LLMGateway::complete / stream and Orchestrator::call_llm
\* ======================================================================
\* What a provider's complete()/stream() returns: Ok or an error code.
ProviderOutcomes ==
    {"Ok", "LLMRateLimited", "LLMConnectionFailed", "LLMStreamError", "Timeout",
     "LLMProviderUnavailable", "LLMInvalidResponse", "LLMApiKeyMissing"}

\* is_retriable(ErrorCode) (errors.hpp lines 160-174)
is_retriable(code) ==
    code \in {"LLMRateLimited", "LLMConnectionFailed", "LLMStreamError", "ToolTimeout",
              "MCPConnectionFailed", "NetworkError", "ConnectionRefused", "Timeout"}

\* A call enters LLMGateway::complete or LLMGateway::stream (the two have the
\* same control flow), or Orchestrator::call_llm, which asks the primary
\* provider itself: llm_.primary().complete(request).
LLM_Call ==
    /\ llm_call.pc \in {"idle", "returned"}
    /\ llm_call.count < MaxLLMCalls
    /\ \E op \in {"complete", "stream", "call_llm"} :
         LET fresh == [pc |-> "primary", op |-> op, primary |-> "", fallback |-> "",
                       result |-> "", invoked |-> <<>>, count |-> llm_call.count + 1]
         IN llm_call' =
              IF op = "call_llm" \/ primary_provider_ = "available" THEN fresh
              ELSE IF fallback_provider_ = "available"
                   THEN [fresh EXCEPT !.pc = "fallback"]
                   ELSE [fresh EXCEPT !.pc = "returned", !.result = "LLMProviderUnavailable"]
    /\ UNCHANGED <<orch_vars, ext_vars, batch_vars, trainer_vars, buffer_vars, session_vars, primary_provider_, fallback_provider_>>

\* The primary provider answers. A provider without its API key returns
\* LLMApiKeyMissing (claude.cpp lines 233-238). The gateway returns Ok at once
\* and goes to the fallback on a retriable error when there is an available
\* one (lines 128-146); call_llm returns whatever the primary returned.
LLM_Primary ==
    /\ llm_call.pc = "primary"
    /\ \E outcome \in ProviderOutcomes :
         /\ primary_provider_ = "unavailable" => outcome = "LLMApiKeyMissing"
         /\ llm_call' =
              LET c == [llm_call EXCEPT !.primary = outcome,
                                        !.invoked = Append(@, "primary")]
              IN IF /\ llm_call.op # "call_llm"
                    /\ outcome # "Ok"
                    /\ is_retriable(outcome)
                    /\ fallback_provider_ = "available"
                 THEN [c EXCEPT !.pc = "fallback"]
                 ELSE [c EXCEPT !.pc = "returned", !.result = outcome]
    /\ UNCHANGED <<orch_vars, ext_vars, batch_vars, trainer_vars, buffer_vars, session_vars, primary_provider_, fallback_provider_>>

\* The fallback provider answers and its result is returned (lines 136-142,
\* 150-157).
LLM_Fallback ==
    /\ llm_call.pc = "fallback"
    /\ \E outcome \in ProviderOutcomes :
         llm_call' = [llm_call EXCEPT !.fallback = outcome,
                                      !.invoked = Append(@, "fallback"),
                                      !.pc = "returned", !.result = outcome]
    /\ UNCHANGED <<orch_vars, ext_vars, batch_vars, trainer_vars, buffer_vars, session_vars, primary_provider_, fallback_provider_>>

InitGateway ==
    /\ OrchInit
    /\ provider = "claude"
    /\ config_ = [thread_pool_size |-> 1, max_parallel_tools |-> 1]
    /\ BatchInit
    /\ primary_provider_ \in {"available", "unavailable"}
    /\ fallback_provider_ \in {"none", "available", "unavailable"}
    /\ GatewayInit
    /\ TrainerInit
    /\ BufferInit
    /\ SessionInit
    /\ ExtInit

NextGateway ==
    \/ LLM_Call
    \/ LLM_Primary
    \/ LLM_Fallback

SpecGateway == InitGateway /\ [][NextGateway]_vars

\* C13: when the primary provider fails a turn's LLM call (call_llm) with a
\* retriable error and an available fallback is configured, the fallback has
\* been asked once before the error is returned.
C13_TurnCallFailsOver ==
    (/\ llm_call.pc = "returned"
     /\ llm_call.op = "call_llm"
     /\ llm_call.primary # "Ok"
     /\ is_retriable(llm_call.primary)
     /\ fallback_provider_ = "available")
    => llm_call.invoked = <<"primary", "fallback">>

\* C14: in complete and stream with an available primary, the fallback is
\* asked exactly when the primary's error is rate limit, connection error,
\* stream error, timeout or provider unavailable (503) and a fallback exists and
\* is available; and no provider is asked twice in one call.
C14_FailoverExactlyOnRetriable ==
    (/\ llm_call.pc = "returned"
     /\ llm_call.op \in {"complete", "stream"}
     /\ primary_provider_ = "available")
    => /\ ("fallback" \in {llm_call.invoked[i] : i \in 1..Len(llm_call.invoked)})
          <=> (/\ llm_call.primary \in {"LLMRateLimited", "LLMConnectionFailed",
                                       "LLMStreamError", "Timeout",
                                       "LLMProviderUnavailable"}
               /\ fallback_provider_ = "available")
       /\ llm_call.invoked \in {<<"primary">>, <<"primary", "fallback">>}

\* ======================================================================
\* TRMTrainer: start_training_async, train_loop, stop_training and
\* wait_for_completion (src/src/trm/trm_trainer.cpp)
\* ======================================================================
\* a loop that never looks at the stop flag
LoopCondition_IgnoresStop(epoch, stop) == epoch < epochs

\* for (...; epoch < config_.epochs && !stop_requested_.load(); ...) (line 103)
LoopCondition(epoch, stop) == epoch < epochs /\ ~stop

Live(r) == r \in 1..Len(runs) /\ runs[r].pc # "done"

StartReturn(result) == [starter EXCEPT !.pc = "idle", !.result = result]

\* line 31: training_in_progress_.exchange(true)
Start_Exchange ==
    /\ starter.pc = "idle"
    /\ starter.count < MaxStarts
    /\ training_in_progress_' = TRUE
    /\ LET s == [pc |-> "check", old |-> 0, live_at_call |-> \E r \in 1..Len(runs) : Live(r),
                 spawned |-> FALSE, result |-> "", count |-> starter.count + 1]
       IN starter' = IF training_in_progress_
                     THEN [s EXCEPT !.pc = "idle", !.result = "InvalidState"]
                     ELSE s
    /\ UNCHANGED <<orch_vars, ext_vars, batch_vars, gateway_vars, buffer_vars, session_vars, stop_requested_, training_thread_,
                   runs, waiter>>

\* lines 38-46: the buffer holds enough episodes, or the flag is put back
Start_CheckBuffer ==
    /\ starter.pc = "check"
    /\ \E enough \in BOOLEAN :
         IF enough
         THEN starter' = [starter EXCEPT !.pc = "reset"] /\ UNCHANGED training_in_progress_
         ELSE starter' = StartReturn("InvalidArgument") /\ training_in_progress_' = FALSE
    /\ UNCHANGED <<orch_vars, ext_vars, batch_vars, gateway_vars, buffer_vars, session_vars, stop_requested_, training_thread_,
                   runs, waiter>>

\* line 48: stop_requested_.store(false)
Start_ResetStop ==
    /\ starter.pc = "reset"
    /\ stop_requested_' = FALSE
    /\ starter' = [starter EXCEPT !.pc = "spawn"]
    /\ UNCHANGED <<orch_vars, ext_vars, batch_vars, gateway_vars, buffer_vars, session_vars, training_in_progress_,
                   training_thread_, runs, waiter>>

\* lines 51-53: make_unique<std::jthread> starts the new worker and the
\* pointer takes it over ...
Start_Spawn ==
    /\ starter.pc = "spawn"
    /\ runs' = Append(runs, [pc |-> "loop", epoch |-> 0, progress |-> 0,
                             complete_calls |-> 0, last_complete |-> FALSE,
                             stop_seen |-> FALSE, begun_after_stop |-> FALSE])
    /\ training_thread_' = Len(runs) + 1
    /\ starter' = [starter EXCEPT !.pc = "join_old", !.old = training_thread_,
                                  !.spawned = TRUE]
    /\ UNCHANGED <<orch_vars, ext_vars, batch_vars, gateway_vars, buffer_vars, session_vars, training_in_progress_,
                   stop_requested_, waiter>>

\* ... and the jthread it held before is destroyed, which joins that worker;
\* then line 55 returns Ok
Start_JoinOld ==
    /\ starter.pc = "join_old"
    /\ starter.old # 0 => runs[starter.old].pc = "done"
    /\ starter' = StartReturn("Ok")
    /\ UNCHANGED <<orch_vars, ext_vars, batch_vars, gateway_vars, buffer_vars, session_vars, training_in_progress_,
                   stop_requested_, training_thread_, runs, waiter>>

\* stop_training (lines 64-66). stop_seen notes, for a worker that is in its
\* loop, that a stop was asked for after it was spawned.
StopTraining ==
    /\ stop_requested_' = TRUE
    /\ runs' = [r \in 1..Len(runs) |->
                  IF runs[r].pc \in {"loop", "epoch"}
                  THEN [runs[r] EXCEPT !.stop_seen = TRUE] ELSE runs[r]]
    /\ UNCHANGED <<orch_vars, ext_vars, batch_vars, gateway_vars, buffer_vars, session_vars, training_in_progress_,
                   training_thread_, starter, waiter>>

\* wait_for_completion (lines 58-62): there is a thread to join
Wait_Call ==
    /\ waiter.pc = "idle"
    /\ training_thread_ # 0
    /\ waiter' = [pc |-> "joining", target |-> training_thread_]
    /\ UNCHANGED <<orch_vars, ext_vars, batch_vars, gateway_vars, buffer_vars, session_vars, training_in_progress_,
                   stop_requested_, training_thread_, runs, starter>>

\* training_thread_->join() returns
Wait_Join ==
    /\ waiter.pc = "joining"
    /\ runs[waiter.target].pc = "done"
    /\ waiter' = [waiter EXCEPT !.pc = "idle"]
    /\ UNCHANGED <<orch_vars, ext_vars, batch_vars, gateway_vars, buffer_vars, session_vars, training_in_progress_,
                   stop_requested_, training_thread_, runs, starter>>

\* train_loop, line 103: the loop condition is evaluated; either the next
\* epoch begins (line 104) or the loop is left
Train_LoopCheck(r) ==
    /\ r \in 1..Len(runs)
    /\ runs[r].pc = "loop"
    /\ runs' = [runs EXCEPT ![r] =
                  IF LoopCondition(runs[r].epoch, stop_requested_)
                  THEN [@ EXCEPT !.pc = "epoch", !.epoch = @ + 1,
                                 !.begun_after_stop = @ \/ runs[r].stop_seen]
                  ELSE [@ EXCEPT !.pc = "finish"]]
    /\ UNCHANGED <<orch_vars, ext_vars, batch_vars, gateway_vars, buffer_vars, session_vars, training_in_progress_,
                   stop_requested_, training_thread_, starter, waiter>>

\* lines 106-134: the epoch's losses and its progress callback
Train_Epoch(r) ==
    /\ r \in 1..Len(runs)
    /\ runs[r].pc = "epoch"
    /\ runs' = [runs EXCEPT ![r] = [@ EXCEPT !.pc = "loop", !.progress = @ + 1,
                                            !.last_complete = FALSE]]
    /\ UNCHANGED <<orch_vars, ext_vars, batch_vars, gateway_vars, buffer_vars, session_vars, training_in_progress_,
                   stop_requested_, training_thread_, starter, waiter>>

\* lines 137-139: complete = true; training_in_progress_.store(false)
Train_StoreFlag(r) ==
    /\ r \in 1..Len(runs)
    /\ runs[r].pc = "finish"
    /\ training_in_progress_' = FALSE
    /\ runs' = [runs EXCEPT ![r].pc = "final"]
    /\ UNCHANGED <<orch_vars, ext_vars, batch_vars, gateway_vars, buffer_vars, session_vars, stop_requested_,
                   training_thread_, starter, waiter>>

\* lines 141-144: the callback with complete = true, then the worker returns
Train_FinalCallback(r) ==
    /\ r \in 1..Len(runs)
    /\ runs[r].pc = "final"
    /\ runs' = [runs EXCEPT ![r] = [@ EXCEPT !.pc = "done", !.complete_calls = @ + 1,
                                            !.last_complete = TRUE]]
    /\ UNCHANGED <<orch_vars, ext_vars, batch_vars, gateway_vars, buffer_vars, session_vars, training_in_progress_,
                   stop_requested_, training_thread_, starter, waiter>>

Train(r) ==
    \/ Train_LoopCheck(r)
    \/ Train_Epoch(r)
    \/ Train_StoreFlag(r)
    \/ Train_FinalCallback(r)

\* The steps of a start_training_async call that is under way.
StartContinue ==
    \/ Start_CheckBuffer
    \/ Start_ResetStop
    \/ Start_Spawn
    \/ Start_JoinOld

InitTrainer ==
    /\ OrchInit
    /\ provider = "claude"
    /\ config_ = [thread_pool_size |-> 1, max_parallel_tools |-> 1]
    /\ BatchInit
    /\ primary_provider_ = "available"
    /\ fallback_provider_ = "none"
    /\ GatewayInit
    /\ TrainerInit
    /\ BufferInit
    /\ SessionInit
    /\ ExtInit

NextTrainer ==
    \/ Start_Exchange
    \/ StartContinue
    \/ StopTraining
    \/ Wait_Call
    \/ Wait_Join
    \/ \E r \in 1..MaxStarts : Train(r)

\* Every thread that can take a step is scheduled: the workers, a thread inside
\* start_training_async, a thread whose join can return.
SpecTrainer ==
    /\ InitTrainer
    /\ [][NextTrainer]_vars
    /\ \A r \in 1..MaxStarts : WF_vars(Train(r))
    /\ WF_vars(StartContinue)
    /\ WF_vars(Wait_Join)

\* C15: at most one worker is executing train_loop at any time, and a
\* start_training_async call made while a worker is executing it returns
\* InvalidState and spawns nothing.
C15_SingleTrainerWorker ==
    /\ Cardinality({r \in 1..Len(runs) : Live(r)}) <= 1
    /\ (starter.live_at_call /\ starter.pc = "idle")
         => (starter.result = "InvalidState" /\ ~starter.spawned)

\* C16: is_training() is true exactly when a spawned worker has not yet
\* returned from train_loop.
C16_FlagIffWorkerLive ==
    training_in_progress_ <=> \E r \in 1..Len(runs) : Live(r)

C17_RunShape ==
    /\ \A r \in 1..Len(runs) :
         /\ runs[r].epoch <= epochs
         /\ runs[r].progress = runs[r].epoch - (IF runs[r].pc = "epoch" THEN 1 ELSE 0)
         /\ ~runs[r].begun_after_stop
         /\ runs[r].complete_calls = (IF runs[r].pc = "done" THEN 1 ELSE 0)
         /\ runs[r].pc = "done" => runs[r].last_complete
    /\ (starter.pc = "idle" /\ \A r \in 1..Len(runs) : ~Live(r)) => ~training_in_progress_

Fields(eps, s, f) == [episodes_ |-> eps, successful_count_ |-> s, failed_count_ |-> f]

\* every pushed episode is counted as successful
PushBack_CountsSuccessOnly(b, e) ==
    Fields(Append(b.episodes_, e), b.successful_count_ + 1, b.failed_count_)

\* episodes_.push_back(episode) and the count of its outcome (lines 17-23,
\* 166-171)
PushBack(b, e) ==
    Fields(Append(b.episodes_, e),
           b.successful_count_ + (IF e.success THEN 1 ELSE 0),
           b.failed_count_ + (IF e.success THEN 0 ELSE 1))

\* a buffer that is never trimmed
TrimLoop_Never(b) == b

\* trim_if_needed (lines 212-226): while over the cap, un-count the oldest
\* episode and pop it
RECURSIVE TrimLoop(_)
TrimLoop(b) ==
    LET max_size == min_episodes_before_training * 10 IN
    IF Len(b.episodes_) > max_size
    THEN LET removed == Head(b.episodes_) IN
         TrimLoop(Fields(Tail(b.episodes_),
                         b.successful_count_ - (IF removed.success THEN 1 ELSE 0),
                         b.failed_count_ - (IF removed.success THEN 0 ELSE 1)))
    ELSE b

\* load_from_memory's loop (lines 165-173): push every episode of `all`
RECURSIVE PushAll(_, _)
PushAll(b, all) ==
    IF all = <<>> THEN b ELSE PushAll(PushBack(b, Head(all)), Tail(all))

BufferNow == Fields(episodes_, successful_count_, failed_count_)

SetBuffer(b) ==
    /\ episodes_' = b.episodes_
    /\ successful_count_' = b.successful_count_
    /\ failed_count_' = b.failed_count_

\* add_episode (lines 14-26). The stamp is the episode's place in the order of
\* insertion.
Buffer_AddEpisode ==
    /\ inserted.total < MaxInserted
    /\ \E success \in BOOLEAN :
         SetBuffer(TrimLoop(PushBack(BufferNow,
                                     [success |-> success, stamp |-> inserted.total + 1])))
    /\ inserted' = [inserted EXCEPT !.total = @ + 1]
    /\ UNCHANGED <<orch_vars, ext_vars, batch_vars, gateway_vars, trainer_vars, session_vars>>

\* load_from_memory (lines 158-178): episodic memory holds `all`
Buffer_LoadFromMemory ==
    \E n \in 0..MaxLoaded : \E outcomes \in [1..n -> BOOLEAN] :
        LET all == [i \in 1..n |-> [success |-> outcomes[i], stamp |-> inserted.total + i]]
        IN /\ inserted.total + n <= MaxInserted
           /\ SetBuffer(TrimLoop(PushAll(BufferNow, all)))
           /\ inserted' = [inserted EXCEPT !.total = @ + n]
           /\ UNCHANGED <<orch_vars, ext_vars, batch_vars, gateway_vars, trainer_vars, session_vars>>

\* clear (lines 151-156)
Buffer_Clear ==
    /\ SetBuffer(Fields(<<>>, 0, 0))
    /\ inserted' = [inserted EXCEPT !.before_clear = inserted.total]
    /\ UNCHANGED <<orch_vars, ext_vars, batch_vars, gateway_vars, trainer_vars, session_vars>>

InitBuffer ==
    /\ OrchInit
    /\ provider = "claude"
    /\ config_ = [thread_pool_size |-> 1, max_parallel_tools |-> 1]
    /\ BatchInit
    /\ primary_provider_ = "available"
    /\ fallback_provider_ = "none"
    /\ GatewayInit
    /\ TrainerInit
    /\ BufferInit
    /\ SessionInit
    /\ ExtInit

NextBuffer ==
    \/ Buffer_AddEpisode
    \/ Buffer_LoadFromMemory
    \/ Buffer_Clear

SpecBuffer == InitBuffer /\ [][NextBuffer]_vars

\* C18: the buffer never holds more than 10 x min_episodes_before_training
\* episodes, and what it holds are the episodes inserted last (since the last
\* clear) in the order they were inserted.
C18_BufferCappedFifo ==
    LET max_size == 10 * min_episodes_before_training
        since_clear == inserted.total - inserted.before_clear
    IN /\ Len(episodes_) <= max_size
       /\ Len(episodes_) = (IF since_clear <= max_size THEN since_clear ELSE max_size)
       /\ \A i \in 1..Len(episodes_) :
            episodes_[i].stamp = inserted.total - Len(episodes_) + i

C18_Witness ==
    /\ Len(episodes_) = 10 * min_episodes_before_training
    /\ inserted.total - inserted.before_clear > Len(episodes_)
    /\ inserted.before_clear > 0

\* C19: successful_count + failed_count equals size(), and each count equals
\* the number of buffered episodes with that outcome.
C19_CountsMatchContents ==
    /\ successful_count_ + failed_count_ = Len(episodes_)
    /\ successful_count_ = Cardinality({i \in 1..Len(episodes_) : episodes_[i].success})
    /\ failed_count_ = Cardinality({i \in 1..Len(episodes_) : ~episodes_[i].success})

C19_Witness ==
    /\ inserted.total - inserted.before_clear > Len(episodes_)
    /\ successful_count_ > 0
    /\ failed_count_ > 0
    /\ episodes_[1].stamp > inserted.before_clear + 1

\* ======================================================================
\* Message and Episode serialization (src/include/gpagent/core/types.hpp,
\* src/src/memory/episodic_memory.cpp). Times are in milliseconds; a JSON
\* object is a record over all its keys, a key it lacks holding Absent.
\* ======================================================================
\* std::nullopt
NullOpt == "nullopt"
Absent == "absent"

Roles == {"system", "user", "assistant", "tool"}

ImagePng == [data |-> "b64", media_type |-> "image/png", source_path |-> "a.png"]
BashCall == [id |-> "tc_1", tool_name |-> "bash", arguments |-> "{}"]

Messages ==
    [role : Roles, content : {"text"}, name : {NullOpt, "bash"},
     tool_calls : {<<>>, <<BashCall>>}, tool_call_id : {NullOpt, "tc_1"},
     images : {<<>>, <<ImagePng>>}, timestamp : {1000, 1500}]

\* Message::to_json (types.hpp lines 154-170), with ToolCall::to_json (64-70)
MessageToJson(m) ==
    [role |-> m.role, content |-> m.content,
     timestamp |-> m.timestamp \div 1000,
     name |-> IF m.name # NullOpt THEN m.name ELSE Absent,
     tool_calls |-> [i \in 1..Len(m.tool_calls) |->
                        [id |-> m.tool_calls[i].id, name |-> m.tool_calls[i].tool_name,
                         arguments |-> m.tool_calls[i].arguments]],
     tool_call_id |-> IF m.tool_call_id # NullOpt THEN m.tool_call_id ELSE Absent]

\* Message::from_json (types.hpp lines 172-187), with ToolCall::from_json
\* (72-78); a Message is constructed with no images
MessageFromJson(j) ==
    [role |-> IF j.role \in Roles THEN j.role ELSE "user", content |-> j.content,
     name |-> IF j.name # Absent THEN j.name ELSE NullOpt,
     tool_calls |-> [i \in 1..Len(j.tool_calls) |->
                        [id |-> j.tool_calls[i].id, tool_name |-> j.tool_calls[i].name,
                         arguments |-> j.tool_calls[i].arguments]],
     tool_call_id |-> IF j.tool_call_id # Absent THEN j.tool_call_id ELSE NullOpt,
     images |-> <<>>,
     timestamp |-> j.timestamp * 1000]

EpisodeAction(result_summary) ==
    [tool |-> "bash", arguments |-> "{}", success |-> TRUE, error |-> NullOpt,
     result_summary |-> result_summary, execution_time |-> 5, timestamp |-> 0]

EpisodeOutcome(summary, duration, failure_reason) ==
    [success |-> failure_reason = NullOpt, turns_taken |-> 1, tools_used |-> 1,
     total_time |-> 7, duration |-> duration, summary |-> summary,
     failure_reason |-> failure_reason]

Episodes ==
    { [id |-> "ep_1", timestamp |-> 2000, started_at |-> started_at, completed_at |-> 0,
       task_description |-> "task", task_category |-> "", project |-> "",
       files_involved |-> <<>>, initial_context |-> initial_context,
       actions |-> actions, outcome |-> EpisodeOutcome(summary, duration, failure_reason),
       learnings |-> <<>>, keywords |-> <<"task">>] :
         started_at \in {0, 1000}, initial_context \in {NullOpt, "ctx"},
         actions \in {<<>>, <<EpisodeAction("")>>, <<EpisodeAction("ok")>>},
         summary \in {"", "done"}, duration \in {0, 3},
         failure_reason \in {NullOpt, "why"} }

\* Episode::to_json with EpisodeAction::to_json and EpisodeOutcome::to_json
\* (episodic_memory.cpp lines 13-24, 39-50, 65-90)
EpisodeToJson(e) ==
    [id |-> e.id, timestamp |-> e.timestamp \div 1000,
     task_description |-> e.task_description, task_category |-> e.task_category,
     project |-> e.project, files_involved |-> e.files_involved,
     outcome |-> [success |-> e.outcome.success, turns_taken |-> e.outcome.turns_taken,
                  tools_used |-> e.outcome.tools_used,
                  total_time_ms |-> e.outcome.total_time,
                  failure_reason |-> IF e.outcome.failure_reason # NullOpt
                                     THEN e.outcome.failure_reason ELSE Absent],
     learnings |-> e.learnings, keywords |-> e.keywords,
     initial_context |-> IF e.initial_context # NullOpt THEN e.initial_context ELSE Absent,
     actions |-> [i \in 1..Len(e.actions) |->
                     [tool |-> e.actions[i].tool, arguments |-> e.actions[i].arguments,
                      success |-> e.actions[i].success,
                      execution_time_ms |-> e.actions[i].execution_time,
                      error |-> IF e.actions[i].error # NullOpt
                                THEN e.actions[i].error ELSE Absent]]]

\* Episode::from_json with EpisodeAction::from_json and
\* EpisodeOutcome::from_json (episodic_memory.cpp lines 26-37, 52-63, 92-130):
\* the members no key is read into keep their default-constructed values
EpisodeFromJson(j) ==
    [id |-> j.id, timestamp |-> j.timestamp * 1000, started_at |-> 0, completed_at |-> 0,
     task_description |-> j.task_description, task_category |-> j.task_category,
     project |-> j.project, files_involved |-> j.files_involved,
     initial_context |-> IF j.initial_context # Absent THEN j.initial_context ELSE NullOpt,
     actions |-> [i \in 1..Len(j.actions) |->
                     [tool |-> j.actions[i].tool, arguments |-> j.actions[i].arguments,
                      success |-> j.actions[i].success,
                      error |-> IF j.actions[i].error # Absent
                                THEN j.actions[i].error ELSE NullOpt,
                      result_summary |-> "",
                      execution_time |-> j.actions[i].execution_time_ms,
                      timestamp |-> 0]],
     outcome |-> [success |-> j.outcome.success, turns_taken |-> j.outcome.turns_taken,
                  tools_used |-> j.outcome.tools_used,
                  total_time |-> j.outcome.total_time_ms, duration |-> 0, summary |-> "",
                  failure_reason |-> IF j.outcome.failure_reason # Absent
                                     THEN j.outcome.failure_reason ELSE NullOpt],
     learnings |-> j.learnings, keywords |-> j.keywords]

\* m.to_json() or e.to_json()
Codec_ToJson ==
    /\ original # NoJson /\ json = NoJson
    /\ json' = IF original \in Messages THEN MessageToJson(original)
               ELSE EpisodeToJson(original)
    /\ UNCHANGED <<codec_rest, original, parsed>>

\* Message::from_json(j) or Episode::from_json(j)
Codec_FromJson ==
    /\ json # NoJson /\ parsed = NoJson
    /\ parsed' = IF original \in Messages THEN MessageFromJson(json)
                 ELSE EpisodeFromJson(json)
    /\ UNCHANGED <<codec_rest, original, json>>

InitCodec ==
    /\ AuxInit
    /\ RegistryInit
    /\ LockInit
    /\ ResumeInit
    /\ LateInit
    /\ original \in Messages \cup Episodes
    /\ json = NoJson
    /\ parsed = NoJson

NextCodec == Codec_ToJson \/ Codec_FromJson

SpecCodec == InitCodec /\ [][NextCodec]_vars

\* C29: serialize-then-parse is the identity on Message and on Episode:
\* from_json(x.to_json()) equals x field for field, whatever the role, tool
\* calls, tool_call_id, name and attached images of a Message and whatever the
\* actions, result summaries, outcome summary and duration of an Episode.
C29_RoundTripIdentity == parsed # NoJson => parsed = original

\* ======================================================================
\* MemoryManager: one session's turn counter, thread, history and
\* checkpoints (src/src/memory/memory_manager.cpp, checkpointer.cpp)
\* ======================================================================
\* a turn counter that append_message leaves alone
increment_turn_Skipped(turn) == turn

\* SessionState::increment_turn: ++conversation_turn_
increment_turn(turn) == turn + 1

\* Checkpointer::create (checkpointer.cpp lines 99-166): session.json,
\* thread.jsonl (ThreadMemory::save: one to_json() per message) and
\* history.json are written and the index gains the entry. taken_at is not
\* on disk: it keeps the in-memory values the checkpoint was made of.
Checkpoint(session, messages, history, trigger) ==
    [conversation_turn |-> session.conversation_turn,
     session_json |-> [conversation_turn |-> session.conversation_turn],
     thread_jsonl |-> [i \in 1..Len(messages) |-> MessageToJson(messages[i])],
     history_json |-> history, trigger |-> trigger,
     taken_at |-> [session |-> session, messages |-> messages, history |-> history]]

Op(name) ==
    [name |-> name, turn_before |-> session_state_.conversation_turn,
     appended |-> last_op.appended, id |-> 0, ok |-> {}]

\* The messages the orchestrator appends: a user message, and a tool result
\* with or without an attached image (orchestrator.cpp lines 296-330)
SessionMessages(n) ==
    { [role |-> "user", content |-> n, name |-> NullOpt, tool_calls |-> <<>>,
       tool_call_id |-> NullOpt, images |-> <<>>, timestamp |-> 1000],
      [role |-> "tool", content |-> n, name |-> NullOpt, tool_calls |-> <<>>,
       tool_call_id |-> "tc_1", images |-> <<ImagePng>>, timestamp |-> 1000] }

\* append_message (lines 322-336): the message is appended, the turn counter
\* incremented and, with auto_checkpoint on (its default), a checkpoint made
\* when the counter is a multiple of checkpoint_interval
Memory_AppendMessage ==
    /\ last_op.appended < MaxAppends
    /\ \E message \in SessionMessages(last_op.appended + 1) :
       LET turn == increment_turn(session_state_.conversation_turn)
           session == [session_state_ EXCEPT !.conversation_turn = turn]
           messages == Append(thread_memory_, message)
       IN /\ session_state_' = session
          /\ thread_memory_' = messages
          /\ disk' = IF turn % checkpoint_interval = 0
                        /\ Len(disk.checkpoints) < MaxCheckpoints
                     THEN [disk EXCEPT !.checkpoints =
                              Append(@, Checkpoint(session, messages, compressed_history_, "auto"))]
                     ELSE disk
    /\ last_op' = [Op("append_message") EXCEPT !.appended = @ + 1]
    /\ UNCHANGED <<orch_vars, ext_vars, batch_vars, gateway_vars, trainer_vars, buffer_vars,
                   compressed_history_>>

\* create_checkpoint (lines 382-391)
Memory_CreateCheckpoint ==
    /\ Len(disk.checkpoints) < MaxCheckpoints
    /\ disk' = [disk EXCEPT !.checkpoints =
                   Append(@, Checkpoint(session_state_, thread_memory_,
                                        compressed_history_, "manual"))]
    /\ last_op' = Op("create_checkpoint")
    /\ UNCHANGED <<orch_vars, ext_vars, batch_vars, gateway_vars, trainer_vars, buffer_vars,
                   session_state_, thread_memory_, compressed_history_>>

\* restore_checkpoint (lines 393-410): the three snapshots are read back
\* (checkpointer.cpp lines 168-219; SessionState::from_json reads
\* conversation_turn, ThreadMemory::load calls Message::from_json on every
\* line) and replace the session's current ones
Memory_RestoreCheckpoint ==
    \E id \in 1..Len(disk.checkpoints) :
       LET checkpoint == disk.checkpoints[id] IN
       /\ session_state_' = [conversation_turn |-> checkpoint.session_json.conversation_turn]
       /\ thread_memory_' = [i \in 1..Len(checkpoint.thread_jsonl) |->
                                MessageFromJson(checkpoint.thread_jsonl[i])]
       /\ compressed_history_' = checkpoint.history_json
       /\ last_op' = [Op("restore_checkpoint") EXCEPT !.id = id]
    /\ UNCHANGED <<orch_vars, ext_vars, batch_vars, gateway_vars, trainer_vars, buffer_vars, disk>>

\* save_all (lines 455-495): state.json is written from the session state
Memory_SaveAll ==
    /\ disk' = [disk EXCEPT !.state_json =
                   [conversation_turn |-> session_state_.conversation_turn]]
    /\ last_op' = Op("save_all")
    /\ UNCHANGED <<orch_vars, ext_vars, batch_vars, gateway_vars, trainer_vars, buffer_vars,
                   session_state_, thread_memory_, compressed_history_>>

\* The batch loop of compact_if_needed (context_manager.cpp lines 310-328):
\* a batch whose summarization succeeds (its start is in ok) is added with
\* the positions [compact_start, batch_end) it has in the thread
\* a batch loop that ends at the first batch whose summarization fails
RECURSIVE CompactLoop_StopOnFailure(_, _, _, _)
CompactLoop_StopOnFailure(history, compact_start, compact_end, ok) ==
    IF compact_start < compact_end /\ compact_start \in ok
    THEN LET batch_end == IF compact_start + summarize_batch < compact_end
                          THEN compact_start + summarize_batch ELSE compact_end
         IN CompactLoop_StopOnFailure(
                Append(history, [start_turn |-> compact_start, end_turn |-> batch_end]),
                batch_end, compact_end, ok)
    ELSE history

RECURSIVE CompactLoop(_, _, _, _)
CompactLoop(history, compact_start, compact_end, ok) ==
    IF compact_start < compact_end
    THEN LET batch_end == IF compact_start + summarize_batch < compact_end
                          THEN compact_start + summarize_batch ELSE compact_end
         IN CompactLoop(IF compact_start \in ok
                        THEN Append(history, [start_turn |-> compact_start,
                                              end_turn |-> batch_end])
                        ELSE history,
                        batch_end, compact_end, ok)
    ELSE history

\* ContextManager::compact_if_needed (context_manager.cpp lines 283-335) when
\* the token estimate is over the threshold: the messages before the last
\* keep_raw_turns * 2 are summarized in batches of summarize_batch and
\* trimmed from the thread (ThreadMemory::trim)
Memory_Compact ==
    /\ Len(thread_memory_) > keep_raw_turns * 2
    /\ LET keep_raw == keep_raw_turns * 2
           compact_end == Len(thread_memory_) - keep_raw
       IN /\ \E ok \in SUBSET (0..(compact_end - 1)) :
               /\ compressed_history_' = CompactLoop(compressed_history_, 0, compact_end, ok)
               /\ last_op' = [Op("compaction") EXCEPT !.ok = ok]
          /\ thread_memory_' = SubSeq(thread_memory_, compact_end + 1, Len(thread_memory_))
    /\ UNCHANGED <<orch_vars, ext_vars, batch_vars, gateway_vars, trainer_vars, buffer_vars,
                   session_state_, disk>>

InitSession ==
    /\ OrchInit
    /\ provider = "claude"
    /\ config_ = [thread_pool_size |-> 1, max_parallel_tools |-> 1]
    /\ BatchInit
    /\ primary_provider_ = "available"
    /\ fallback_provider_ = "none"
    /\ GatewayInit
    /\ TrainerInit
    /\ BufferInit
    /\ SessionInit
    /\ ExtInit

NextSession ==
    \/ Memory_AppendMessage
    \/ Memory_CreateCheckpoint
    \/ Memory_RestoreCheckpoint
    \/ Memory_SaveAll
    \/ Memory_Compact

SpecSession == InitSession /\ [][NextSession]_vars

C21_RestoreReproduces ==
    last_op.name = "restore_checkpoint" =>
        LET checkpoint == disk.checkpoints[last_op.id] IN
        /\ session_state_ = checkpoint.taken_at.session
        /\ thread_memory_ = checkpoint.taken_at.messages
        /\ compressed_history_ = checkpoint.taken_at.history
        /\ session_state_.conversation_turn = checkpoint.conversation_turn

\* C22: after any number of compact_if_needed runs on a session, with appends
\* in between, the summaries of CompressedHistory have pairwise
\* non-overlapping turn spans and end_turn values that do not decrease in
\* list order.
C22_SpansDisjointMonotonic ==
    \A i, j \in 1..Len(compressed_history_) :
        i < j => /\ compressed_history_[i].end_turn <= compressed_history_[j].start_turn
                 /\ compressed_history_[i].end_turn <= compressed_history_[j].end_turn

\* ======================================================================
\* ToolRegistry::execute against register_tool, unregister_tool, enable_tool
\* and disable_tool (src/src/tools/tool_registry.cpp)
\* ======================================================================
ParamTypes == {"String", "Integer", "Number", "Boolean", "Array", "Object"}

\* The specs file_read is registered with: a parameter p of every type,
\* required or not, with or without the enumeration {"a"}, alone or followed
\* by a required Integer parameter q
DrawnSpecs ==
    { [name |-> "file_read", parameters |-> <<Param("p", type, required, has, {"a"})>> \o q] :
         type \in ParamTypes, required \in BOOLEAN, has \in BOOLEAN,
         q \in {<<>>, <<Param("q", "Integer", TRUE, FALSE, {})>>} }

\* The argument objects of a call: p absent or of every JSON kind, q absent,
\* an integer or a string, and an argument x that no spec declares
ArgMaps ==
    { p \cup q \cup x :
         p \in {{}} \cup {{Arg("p", "string", str)} : str \in {"a", "b"}}
                    \cup {{Arg("p", kind, "")} :
                            kind \in {"integer", "float", "boolean", "array", "object", "null"}},
         q \in {{}, {Arg("q", "integer", "")}, {Arg("q", "string", "a")}},
         x \in {{}, {Arg("x", "string", "a")}} }

\* a lookup that takes a disabled tool as well
LookupEnabled_Ignored(tool) == TRUE

\* execute: it->second.enabled (line 234)
LookupEnabled(tool) == tool.enabled

\* register_tool (lines 13-43): enabled as config_.builtin says
Registry_Register(id) ==
    /\ ~registry[id].registered
    /\ registry' = [registry EXCEPT ![id].registered = TRUE,
                                    ![id].enabled = tools_[id].enabled]
    /\ UNCHANGED <<registry_rest, exec>>

\* unregister_tool (lines 45-58)
Registry_Unregister(id) ==
    /\ registry[id].registered
    /\ registry' = [registry EXCEPT ![id].registered = FALSE]
    /\ UNCHANGED <<registry_rest, exec>>

\* enable_tool / disable_tool (lines 122-144)
Registry_SetEnabled(id, enabled) ==
    /\ registry[id].registered
    /\ registry[id].enabled # enabled
    /\ registry' = [registry EXCEPT ![id].enabled = enabled]
    /\ UNCHANGED <<registry_rest, exec>>

\* a thread calls execute(id, args, ctx)
Execute_Call ==
    /\ exec.pc = "idle"
    /\ \E id \in DOMAIN registry \cup {"nope"}, args \in ArgMaps :
         exec' = [ExecIdle EXCEPT !.pc = "lookup", !.id = id, !.args = args]
    /\ UNCHANGED <<registry_rest, registry>>

\* execute, the block under mutex_ (lines 222-242)
Execute_Lookup ==
    /\ exec.pc = "lookup"
    /\ IF exec.id \notin DOMAIN registry \/ ~registry[exec.id].registered
       THEN exec' = [exec EXCEPT !.pc = "done",
                                 !.result = Err("ToolNotFound", "Tool not found")]
       ELSE IF ~LookupEnabled(registry[exec.id])
       THEN exec' = [exec EXCEPT !.pc = "done", !.found = TRUE,
                                 !.result = Err("ToolDisabled", "Tool is disabled")]
       ELSE exec' = [exec EXCEPT !.pc = "validate", !.found = TRUE,
                                 !.enabled = registry[exec.id].enabled,
                                 !.tool = registry[exec.id].spec]
    /\ UNCHANGED <<registry_rest, registry>>

\* execute, validate_args(tool.spec, args) (lines 244-248)
Execute_Validate ==
    /\ exec.pc = "validate"
    /\ LET validation == validate_args(exec.tool, exec.args) IN
       exec' = IF validation.kind = "err"
               THEN [exec EXCEPT !.pc = "done", !.validation = validation,
                                 !.result = validation]
               ELSE [exec EXCEPT !.pc = "invoke", !.validation = validation]
    /\ UNCHANGED <<registry_rest, registry>>

\* execute, tool.handler(args, ctx) (lines 250-266)
Execute_Invoke ==
    /\ exec.pc = "invoke"
    /\ \E behaviour \in HandlerBehaviours :
         LET r == Handler(behaviour) IN
         exec' = [exec EXCEPT !.pc = "done", !.invoked = TRUE,
                              !.result = IF r.kind = "throw"
                                         THEN Err("ToolExecutionFailed", r.error_message)
                                         ELSE Ok([success |-> r.success, content |-> r.content,
                                                  error_message |-> r.error_message])]
    /\ UNCHANGED <<registry_rest, registry>>

\* execute returns its Result to the caller
Execute_Return ==
    /\ exec.pc = "done"
    /\ exec' = ExecIdle
    /\ UNCHANGED <<registry_rest, registry>>

InitRegistry ==
    /\ AuxInit
    /\ CodecInit
    /\ LockInit
    /\ ResumeInit
    /\ LateInit
    /\ \E spec \in DrawnSpecs :
         registry = [id \in DOMAIN tools_ |->
                        [registered |-> TRUE, enabled |-> tools_[id].enabled,
                         spec |-> IF id = "file_read" THEN spec ELSE tools_[id].spec]]
    /\ exec = ExecIdle

NextRegistry ==
    \/ \E id \in DOMAIN registry : Registry_Register(id)
    \/ \E id \in DOMAIN registry : Registry_Unregister(id)
    \/ \E id \in DOMAIN registry, enabled \in BOOLEAN : Registry_SetEnabled(id, enabled)
    \/ Execute_Call
    \/ Execute_Lookup
    \/ Execute_Validate
    \/ Execute_Invoke
    \/ Execute_Return

SpecRegistry == InitRegistry /\ [][NextRegistry]_vars

\* C23: ToolRegistry::execute invokes the handler only if the tool was found
\* registered and enabled by the lookup and its arguments pass validation;
\* otherwise it returns ToolNotFound, ToolDisabled or ToolValidationFailed
\* respectively, checked in that order, and the handler is not invoked.
C23_HandlerBehindThreeChecks ==
    exec.pc = "done" =>
        LET valid == validate_args(exec.tool, exec.args).kind = "ok" IN
        /\ exec.invoked <=> (exec.found /\ exec.enabled /\ valid)
        /\ ~exec.found <=> exec.result.code = "ToolNotFound"
        /\ (exec.found /\ ~exec.enabled) <=> exec.result.code = "ToolDisabled"
        /\ (exec.found /\ exec.enabled /\ ~valid) <=> exec.result.code = "ToolValidationFailed"

\* a call of a disabled tool with arguments its spec rejects has returned
\* ToolDisabled: the enabled check comes before validation
C23_Witness ==
    /\ exec.pc = "done"
    /\ exec.found /\ ~exec.enabled
    /\ validate_args(registry[exec.id].spec, exec.args).kind = "err"
    /\ exec.result.code = "ToolDisabled"

\* C30: validate_args accepts an argument map for a spec exactly when every
\* required parameter is present, every supplied argument that matches a
\* declared parameter has the JSON kind of the declared type, and every string
\* argument of a parameter that declares an enumeration is a member of it;
\* arguments that match no declared parameter never cause rejection.
C30_ValidateArgsExact ==
    exec.validation # None =>
        LET parameters == exec.tool.parameters
            Declared(a) == {i \in 1..Len(parameters) : parameters[i].name = a.name}
            KindsOf(type) ==
                CASE type = "String" -> {"string"}
                  [] type = "Integer" -> {"integer"}
                  [] type = "Number" -> {"integer", "float"}
                  [] type = "Boolean" -> {"boolean"}
                  [] type = "Array" -> {"array"}
                  [] type = "Object" -> {"object"}
        IN exec.validation.kind = "ok" <=>
             /\ \A i \in 1..Len(parameters) :
                   parameters[i].required => \E a \in exec.args : a.name = parameters[i].name
             /\ \A a \in exec.args : \A i \in Declared(a) :
                   /\ a.kind \in KindsOf(parameters[i].type)
                   /\ (parameters[i].enum_values.has /\ a.kind = "string")
                        => a.str \in parameters[i].enum_values.values

\* an argument map with an undeclared argument x, a string p that is a member
\* of p's enumeration and the required q is accepted
C30_Witness ==
    /\ exec.validation # None
    /\ exec.validation.kind = "ok"
    /\ Len(exec.tool.parameters) = 2
    /\ exec.tool.parameters[1].enum_values.has
    /\ \E a \in exec.args : a.name = "x"
    /\ \E a \in exec.args : a.name = "p" /\ a.kind = "string"

\* ======================================================================
\* One caller of process() and a client that calls abort_task() and
\* complete_task() more than once (src/src/agent/orchestrator.cpp)
\* ======================================================================
InitTask ==
    /\ AuxInit
    /\ ExtInit

NextTask ==
    \/ Process("c1")
    \/ AbortTaskWithin(MaxTaskCalls)
    \/ CompleteTaskWithin(MaxTaskCalls)
    \/ T_Epoch
    \/ T_Finish

SpecTask == InitTask /\ [][NextTask]_vars

\* C24: abort_task() called while a task is being tracked records exactly one
\* Episode with outcome.success = false carrying the actions accumulated so
\* far, in episodic memory and in the Episode Buffer, and leaves the task
\* description and the action list empty; an abort_task() or complete_task()
\* made while no task is tracked (as after an abort_task(), before the next
\* process()) records nothing.
C24_AbortStep ==
    LET episode == [task_description |-> current_task_description,
                    actions |-> current_actions, success |-> FALSE]
    IN /\ AbortTaskWithin(MaxTaskCalls) =>
            /\ current_task_description' = "" /\ current_actions' = <<>>
            /\ current_task_description # "" =>
                 /\ episodic' = Append(episodic, episode)
                 /\ Len(buffer') > 0 /\ buffer'[Len(buffer')] = episode
                 /\ Cardinality({i \in 1..Len(buffer') : buffer'[i] = episode})
                      = Cardinality({i \in 1..Len(buffer) : buffer[i] = episode}) + 1
       /\ (issued'.client_calls # issued.client_calls /\ current_task_description = "")
            => episodic' = episodic /\ buffer' = buffer
       /\ current_task_description' # current_task_description
            => \/ issued'.client_calls # issued.client_calls
               \/ \E c \in Callers : pc[c] = "start"

C25_ToolCallIdsUnique ==
    \A i, j \in 1..Len(thread) :
        \A a \in 1..Len(thread[i].tool_calls), b \in 1..Len(thread[j].tool_calls) :
            <<i, a>> # <<j, b>> => thread[i].tool_calls[a].id # thread[j].tool_calls[b].id

\* is_fatal (errors.hpp lines 176-188)
is_fatal(code) ==
    code \in {"LLMApiKeyMissing", "ConfigParseFailed", "ConfigValidationFailed",
              "MemoryCorrupted", "PathNotAllowed"}

\* C26: process() returns only on a final response, a fatal error, shutdown or
\* turn-limit exhaustion: an LLM error that is not fatal (rate limited,
\* connection failed, invalid response, context too large) during a turn does
\* not make process() return an error.
C26_OnlyFatalErrorsReturned ==
    \A c \in Callers :
        loc[c].result.kind = "err" =>
            \/ is_fatal(loc[c].result.code)
            \/ loc[c].result.code = "InvalidState"

\* ======================================================================
\* The mutexes of the Tool Registry, the Tool Executor's stats and the Episode
\* Buffer, as the orchestrator thread, a pool worker and the trainer thread
\* take them (tool_registry.cpp, tool_executor.cpp, episode_buffer.cpp,
\* trm_trainer.cpp)
\* ======================================================================
Lock(m) == [do |-> "lock", m |-> m]
Unlock(m) == [do |-> "unlock", m |-> m]
Work(what) == [do |-> what, m |-> ""]

\* operations that nest the mutexes against each other
OperationsOf_Nested(t) ==
    IF t = "trainer"
    THEN {<<Lock("buffer"), Lock("registry"), Unlock("registry"), Unlock("buffer")>>}
    ELSE {<<Lock("registry"), Lock("buffer"), Unlock("buffer"), Unlock("registry")>>}

\* The lock scopes of the operations each thread runs.
\*   ToolExecutor::execute (tool_executor.cpp 61-78): ToolRegistry::execute
\*     holds mutex_ for the lookup only (tool_registry.cpp 222-243), validates
\*     and runs the handler unlocked, then record_execution takes stats_mutex_
\*   execute_with_timeout, timed out (tool_executor.cpp 132-137): stats_mutex_
\*   get_enabled_specs and the other registry reads (tool_registry.cpp 59-98)
\*   call_llm (orchestrator.cpp 229-235): augment_system_prompt_with_trm walks
\*     all_tools(), the map itself, and calls is_enabled (locked) on each
\*     element (lines 476-480); build_tool_schemas walks all_tools() and reads
\*     enabled and spec of each element (lines 435-465); neither takes mutex_
\*   client: register_tool, unregister_tool, enable_tool, disable_tool
\*     (tool_registry.cpp 13-57, 123-144), each under mutex_
\*   EpisodeBuffer::add_episode, load_from_memory (episode_buffer.cpp 14-26,
\*     158-178): mutex_ for the whole body, in which no other component is called
\*   trainer: has_enough_for_training, size, sample_batch,
\*     sample_contrastive_pairs (episode_buffer.cpp 28-148), each under mutex_
OperationsOf(t) ==
    LET execute == <<Lock("registry"), Work("read tools_"), Unlock("registry"),
                     Work("validate_args"), Work("handler"),
                     Lock("stats"), Unlock("stats")>>
        timed_out == <<Lock("stats"), Unlock("stats")>>
        registry_read == <<Lock("registry"), Work("read tools_"), Unlock("registry")>>
        registry_write == <<Lock("registry"), Work("write tools_"), Unlock("registry")>>
        augment_system_prompt_with_trm ==
            <<Work("read tools_"), Lock("registry"), Work("read tools_"), Unlock("registry")>>
        build_tool_schemas == <<Work("read tools_")>>
        add_episode == <<Lock("buffer"), Work("push_back"), Work("trim_if_needed"),
                         Unlock("buffer")>>
        load_from_memory == <<Lock("buffer"), Work("all_episodes"), Work("trim_if_needed"),
                              Unlock("buffer")>>
        sample == <<Lock("buffer"), Work("sample"), Unlock("buffer")>>
        has_enough == <<Lock("buffer"), Unlock("buffer")>>
    IN CASE t = "orchestrator" ->
              {execute, timed_out, registry_read, add_episode, load_from_memory, has_enough,
               augment_system_prompt_with_trm, build_tool_schemas}
         [] t = "worker" -> {execute}
         [] t = "client" -> {registry_write}
         [] t = "trainer" -> {sample, has_enough}

Held(t) == {m \in Mutexes : owner[m] = t}

\* the event thread t is at (none: it is between operations)
EventOf(t) ==
    IF running[t].at <= Len(running[t].op) THEN running[t].op[running[t].at] ELSE Work("none")

\* thread t enters one of its operations
Lock_Enter(t) ==
    /\ running[t].at > Len(running[t].op)
    /\ \E op \in OperationsOf(t) : running' = [running EXCEPT ![t] = [op |-> op, at |-> 1]]
    /\ UNCHANGED <<lock_rest, owner>>

\* std::lock_guard constructor: blocks until the mutex is free
Lock_Acquire(t) ==
    /\ EventOf(t).do = "lock"
    /\ owner[EventOf(t).m] = "free"
    /\ owner' = [owner EXCEPT ![EventOf(t).m] = t]
    /\ running' = [running EXCEPT ![t].at = @ + 1]
    /\ UNCHANGED lock_rest

\* std::lock_guard destructor
Lock_Release(t) ==
    /\ EventOf(t).do = "unlock"
    /\ owner' = [owner EXCEPT ![EventOf(t).m] = "free"]
    /\ running' = [running EXCEPT ![t].at = @ + 1]
    /\ UNCHANGED lock_rest

\* a step of the operation that takes or frees no mutex
Lock_Work(t) ==
    /\ EventOf(t).do \notin {"lock", "unlock", "none"}
    /\ running' = [running EXCEPT ![t].at = @ + 1]
    /\ UNCHANGED <<lock_rest, owner>>

InitLocks ==
    /\ AuxInit
    /\ ExtInit

NextLocks ==
    \E t \in LockThreads :
        \/ Lock_Enter(t)
        \/ Lock_Acquire(t)
        \/ Lock_Release(t)
        \/ Lock_Work(t)

SpecLocks == InitLocks /\ [][NextLocks]_vars

\* C27: no thread acquires (or waits for) a component mutex while holding
\* another one against the order Tool Registry mutex, Tool Executor stats
\* mutex, Episode Buffer mutex; the trainer thread never acquires the Tool
\* Registry mutex; and no interleaving of tool execution, batch execution,
\* episode adds, buffer sampling and training reaches a deadlock: there is no
\* set of threads each waiting for a mutex that a thread of the set holds.
C27_LockOrderNoDeadlock ==
    LET rank == [registry |-> 1, stats |-> 2, buffer |-> 3]
        Waiting(t) == EventOf(t).do = "lock"
    IN /\ \A t \in LockThreads :
             Waiting(t) => \A h \in Held(t) : rank[h] < rank[EventOf(t).m]
       /\ owner["registry"] # "trainer"
       /\ ~(Waiting("trainer") /\ EventOf("trainer").m = "registry")
       /\ \A stuck \in SUBSET LockThreads \ {{}} :
             ~\A t \in stuck : Waiting(t) /\ owner[EventOf(t).m] \in stuck

\* the worker waits for the registry mutex the orchestrator holds while the
\* trainer holds the buffer mutex
C27_Witness ==
    /\ owner["registry"] = "orchestrator"
    /\ EventOf("worker") = Lock("registry")
    /\ owner["buffer"] = "trainer"

\* ---------------------------------------------------------------------
\* MemoryManager::start_session and resume_session over a stored session
\* whose files may have been cut short (memory_manager.cpp lines 148-196).
\* ---------------------------------------------------------------------

\* Json::dump of one top-level value: its opening bracket, its members and
\* its closing bracket. A line of thread.jsonl is one such text.
JsonDump(j) == <<"begin", j, "end">>

\* Json::parse: the value of a complete text; anything else (an empty or a
\* cut-short text) throws Json::parse_error
JsonParse(text) ==
    IF Len(text) = 3 /\ text[1] = "begin" /\ text[3] = "end"
    THEN [ok |-> TRUE, value |-> <<text[2]>>]
    ELSE [ok |-> FALSE, value |-> <<>>]

\* What is left of a text whose write was interrupted
Truncations(text) == { SubSeq(text, 1, n) : n \in 0..(Len(text) - 1) }

File(text) == [exists |-> TRUE, text |-> text]

\* SessionState::to_json / from_json (session_state.cpp lines 168-209)
SessionStateToJson(st) ==
    [session_id |-> st.session_id_, conversation_turn |-> st.conversation_turn]
SessionStateFromJson(j) ==
    [session_id_ |-> j.session_id, conversation_turn |-> j.conversation_turn]

\* CompressedHistory::Summary::from_json (thread_memory.cpp lines 162-171)
SummaryFromJson(j) == [start_turn |-> j.start_turn, end_turn |-> j.end_turn]

\* SessionState::load (session_state.cpp lines 239-275)
SessionState_load(file) ==
    IF ~file.exists THEN Err("FileNotFound", "")
    ELSE LET j == JsonParse(file.text)
         IN IF j.ok THEN Ok(SessionStateFromJson(j.value[1]))
            ELSE Err("MemoryCorrupted", "")

\* ThreadMemory::load (thread_memory.cpp lines 81-122): an empty line is
\* skipped, and so is a line Json::parse throws on
ThreadMemory_load(file) ==
    IF ~file.exists THEN Err("FileNotFound", "")
    ELSE LET kept == SelectSeq(file.text, LAMBDA line : Len(line) # 0 /\ JsonParse(line).ok)
         IN Ok([i \in 1..Len(kept) |-> MessageFromJson(JsonParse(kept[i]).value[1])])

\* CompressedHistory::load (thread_memory.cpp lines 224-262): no file is an
\* empty history
CompressedHistory_load(file) ==
    IF ~file.exists THEN Ok(<<>>)
    ELSE LET j == JsonParse(file.text)
         IN IF j.ok
            THEN Ok([i \in 1..Len(j.value[1]) |-> SummaryFromJson(j.value[1][i])])
            ELSE Err("MemoryCorrupted", "")

SessionIds == {"s1", "s2"}

\* The files of session s1 as an earlier run left them: written in full by
\* save_all, not written, or cut short
StoredState == [session_id_ |-> "s1", conversation_turn |-> 1]
StoredLine ==
    JsonDump(MessageToJson(CHOOSE m \in SessionMessages(1) : m.role = "user"))
StoredHistory == <<[start_turn |-> 0, end_turn |-> 1]>>

TextsOf(text) == {NoFile} \cup { File(t) : t \in {text} \cup Truncations(text) }

StoredSessions ==
    {NoFiles} \cup
    [dir : {TRUE},
     state_json : TextsOf(JsonDump(SessionStateToJson(StoredState))),
     thread_jsonl : {NoFile} \cup
                    { File(lines) : lines \in
                        UNION { [1..n -> {StoredLine} \cup Truncations(StoredLine)] :
                                n \in 0..MaxStoredLines } },
     history_json : TextsOf(JsonDump(StoredHistory))]

Call(name, id, result) ==
    [name |-> name, id |-> id, ok |-> result.kind = "ok", code |-> result.code,
     before |-> manager,
     after_failure |-> called.name = "resume_session" /\ ~called.ok]

\* start_session (lines 148-158)
Memory_StartSession(id) ==
    /\ manager' = [current_session_id_ |-> <<id>>,
                   session_state_ |-> <<[session_id_ |-> id, conversation_turn |-> 0]>>,
                   thread_memory_ |-> << <<>> >>,
                   compressed_history_ |-> << <<>> >>]
    /\ files' = IF id = "s1" THEN [files EXCEPT !.dir = TRUE] ELSE files
    /\ called' = Call("start_session", id, Ok(id))
    /\ UNCHANGED resume_rest

\* resume_session (lines 160-196): only a missing directory and a failed
\* SessionState::load return early; a failed ThreadMemory::load or
\* CompressedHistory::load is replaced by an empty object
Memory_ResumeSession(id) ==
    /\ IF ~files.dir
       THEN /\ called' = Call("resume_session", id, Err("SessionNotFound", ""))
            /\ UNCHANGED manager
       ELSE LET state_result == SessionState_load(files.state_json)
                thread_result == ThreadMemory_load(files.thread_jsonl)
                history_result == CompressedHistory_load(files.history_json)
            IN IF state_result.kind # "ok"
               THEN /\ called' = Call("resume_session", id, state_result)
                    /\ UNCHANGED manager
               ELSE /\ manager' =
                         [current_session_id_ |-> <<id>>,
                          session_state_ |-> <<state_result.value>>,
                          thread_memory_ |-> IF thread_result.kind = "ok"
                                             THEN <<thread_result.value>>
                                             ELSE << <<>> >>,
                          compressed_history_ |-> IF history_result.kind = "ok"
                                                  THEN <<history_result.value>>
                                                  ELSE << <<>> >>]
                    /\ called' = Call("resume_session", id, Ok(id))
    /\ UNCHANGED <<resume_rest, files>>

InitResume ==
    /\ AuxInit
    /\ CodecInit
    /\ RegistryInit
    /\ LockInit
    /\ LateInit
    /\ files \in StoredSessions
    /\ manager = NoSession
    /\ called = NoCall

NextResume ==
    \/ \E id \in SessionIds : Memory_StartSession(id)
    \/ Memory_ResumeSession("s1")

SpecResume == InitResume /\ [][NextResume]_vars

\* A stored file that exists and that Json::parse does not accept (for
\* thread.jsonl: one of its non-empty lines)
Unparseable(stored) ==
    /\ stored.dir
    /\ \/ stored.state_json.exists /\ ~JsonParse(stored.state_json.text).ok
       \/ /\ stored.thread_jsonl.exists
          /\ \E i \in 1..Len(stored.thread_jsonl.text) :
                /\ Len(stored.thread_jsonl.text[i]) # 0
                /\ ~JsonParse(stored.thread_jsonl.text[i]).ok
       \/ stored.history_json.exists /\ ~JsonParse(stored.history_json.text).ok

\* C28: resume_session(id) fails, and the session is not adopted as the
\* active session, whenever the stored state.json, thread.jsonl or
\* history.json of that session cannot be parsed; and after such a failure
\* start_session with a new id still succeeds.
C28_ResumeFailsOnUnparseable ==
    /\ (called.name = "resume_session" /\ Unparseable(files))
         => ~called.ok /\ manager = called.before
    /\ (called.name = "start_session" /\ called.after_failure)
         => called.ok /\ manager.current_session_id_ = <<called.id>>

\* C31: every read of the Tool Registry's tool map (the reads made when the
\* orchestrator builds tool schemas and the TRM tool list each turn
\* included) is performed while holding the registry mutex, so no read
\* overlaps a concurrent register_tool, unregister_tool, enable_tool or
\* disable_tool.
C31_ReadsHoldRegistryMutex ==
    /\ \A t \in LockThreads :
          EventOf(t).do = "read tools_" => owner["registry"] = t
    /\ ~\E r, w \in LockThreads :
          EventOf(r).do = "read tools_" /\ EventOf(w).do = "write tools_"

\* What one run of compact_if_needed did: the batches it cut the messages
\* before the last keep_raw_turns * 2 into, the batches whose summarization
\* succeeded, and the summaries it appended
CompactionBatches ==
    { b \in 0..(Len(thread_memory_) - keep_raw_turns * 2 - 1) : b % summarize_batch = 0 }
BatchSpan(b) ==
    LET compact_end == Len(thread_memory_) - keep_raw_turns * 2
    IN [start_turn |-> b,
        end_turn |-> IF b + summarize_batch < compact_end
                     THEN b + summarize_batch ELSE compact_end]
AppendedSummaries ==
    SubSeq(compressed_history_', Len(compressed_history_) + 1, Len(compressed_history_'))

\* C32: when compact_if_needed triggers, a summarizer failure on one batch
\* does not stop the later batches from being summarized: every batch whose
\* summarization succeeds adds exactly one summary carrying that batch's
\* span, and afterwards the thread holds exactly the last keep_raw_turns * 2
\* messages.
C32_CompactStep ==
    Memory_Compact =>
        LET succeeded == CompactionBatches \cap last_op'.ok
            n == Len(thread_memory_)
        IN /\ Len(AppendedSummaries) = Cardinality(succeeded)
           /\ \A b \in succeeded :
                 Cardinality({ i \in 1..Len(AppendedSummaries) :
                                 AppendedSummaries[i] = BatchSpan(b) }) = 1
           /\ compressed_history_ =
                 SubSeq(compressed_history_', 1, Len(compressed_history_))
           /\ thread_memory_' = SubSeq(thread_memory_, n - keep_raw_turns * 2 + 1, n)
           /\ Len(thread_memory_') = keep_raw_turns * 2

C32_FailedBatchSkipped == [][C32_CompactStep]_vars

\* a compaction whose first batch failed and whose second batch was
\* summarized and added
C32_Witness ==
    /\ last_op.name = "compaction"
    /\ 0 \notin last_op.ok
    /\ 1 \in last_op.ok
    /\ Len(compressed_history_) > 0
    /\ compressed_history_[Len(compressed_history_)] = [start_turn |-> 1, end_turn |-> 2]
    /\ Len(thread_memory_) = keep_raw_turns * 2

\* C40: every message that compact_if_needed removes from thread memory lies
\* inside the span of a summary appended to CompressedHistory by that same
\* compaction run: no message is dropped from the thread without being
\* covered by a summary, also when the summarizer fails for some batch.
C40_CompactStep ==
    Memory_Compact =>
        \A removed \in 0..(Len(thread_memory_) - Len(thread_memory_') - 1) :
            \E i \in 1..Len(AppendedSummaries) :
                /\ AppendedSummaries[i].start_turn <= removed
                /\ removed < AppendedSummaries[i].end_turn

C40_RemovedMessagesCovered == [][C40_CompactStep]_vars

\* ---------------------------------------------------------------------
\* EpisodeBuffer::sample_contrastive_pairs (episode_buffer.cpp lines 64-148)
\* over a buffer of drawn outcomes. Episodes are told apart by their stamp;
\* an index is a position 1..Len(episodes_) of the deque.
\* ---------------------------------------------------------------------

\* The fallback's search for the positive (lines 96-100): draw again while
\* the draw is the anchor, at most SampleAttempts times
RECURSIVE PositiveDraws(_, _, _, _)
PositiveDraws(size, anchor_idx, attempt, pos_idx) ==
    IF attempt < SampleAttempts /\ pos_idx = anchor_idx
    THEN UNION { PositiveDraws(size, anchor_idx, attempt + 1, drawn) : drawn \in 1..size }
    ELSE {pos_idx}

\* The fallback's search for the negative (lines 103-108): the draw is kept
\* when it differs from both, and the last draw is kept after SampleAttempts
RECURSIVE NegativeDraws(_, _, _, _, _)
NegativeDraws(size, anchor_idx, pos_idx, attempt, neg_idx) ==
    IF attempt < SampleAttempts
    THEN UNION { IF drawn # anchor_idx /\ drawn # pos_idx
                 THEN {drawn}
                 ELSE NegativeDraws(size, anchor_idx, pos_idx, attempt + 1, drawn) :
                 drawn \in 1..size }
    ELSE {neg_idx}

\* the index triples one round of the fallback loop can produce (lines 88-111)
FallbackTriples(size) ==
    UNION { UNION { { <<anchor_idx, pos_idx, neg_idx>> :
                        neg_idx \in NegativeDraws(size, anchor_idx, pos_idx, 0, anchor_idx) } :
                    pos_idx \in PositiveDraws(size, anchor_idx, 0, anchor_idx) } :
            anchor_idx \in 1..size }

\* the index triples one round of the outcome-based loop can produce (lines
\* 116-145)
OutcomeTriples(success_indices, failure_indices) ==
    UNION { LET anchor_pool == IF anchor_success THEN success_indices ELSE failure_indices
                negative_pool == IF anchor_success THEN failure_indices ELSE success_indices
            IN UNION { { <<anchor_idx, pos_idx, neg_idx>> :
                           pos_idx \in IF Cardinality(anchor_pool) > 1
                                       THEN anchor_pool \ {anchor_idx} ELSE anchor_pool,
                           neg_idx \in negative_pool } :
                       anchor_idx \in anchor_pool } :
            anchor_success \in BOOLEAN }

\* every vector sample_contrastive_pairs(num_pairs) can return
sample_contrastive_pairs(episodes, num_pairs) ==
    LET size == Len(episodes)
        success_indices == { i \in 1..size : episodes[i].success }
        failure_indices == { i \in 1..size : ~episodes[i].success }
        Pair(t) == [anchor |-> episodes[t[1]], positive |-> episodes[t[2]],
                    negative |-> episodes[t[3]]]
        Vectors(count, triples) ==
            { [p \in 1..count |-> Pair(chosen[p])] : chosen \in [1..count -> triples] }
    IN IF size < 3 THEN { <<>> }
       ELSE IF success_indices = {} \/ failure_indices = {}
       THEN Vectors(IF num_pairs < size \div 3 THEN num_pairs ELSE size \div 3,
                    FallbackTriples(size))
       ELSE Vectors(num_pairs, OutcomeTriples(success_indices, failure_indices))

Buffer_SampleContrastivePairs ==
    /\ \E num_pairs \in 1..MaxPairs :
          pairs' \in sample_contrastive_pairs(episodes_, num_pairs)
    /\ UNCHANGED <<sample_rest, recent_actions, history_scores>>

\* a buffer of up to MaxSampled episodes of any outcomes
InitSample ==
    /\ OrchInit
    /\ provider = "claude"
    /\ config_ = [thread_pool_size |-> 1, max_parallel_tools |-> 1]
    /\ BatchInit
    /\ primary_provider_ = "available"
    /\ fallback_provider_ = "none"
    /\ GatewayInit
    /\ TrainerInit
    /\ SessionInit
    /\ ExtInit
    /\ \E n \in 0..MaxSampled : \E outcomes \in [1..n -> BOOLEAN] :
          /\ episodes_ = [i \in 1..n |-> [success |-> outcomes[i], stamp |-> i]]
          /\ successful_count_ = Cardinality({ i \in 1..n : outcomes[i] })
          /\ failed_count_ = Cardinality({ i \in 1..n : ~outcomes[i] })
          /\ inserted = [total |-> n, before_clear |-> 0]

NextSample == Buffer_SampleContrastivePairs

SpecSample == InitSample /\ [][NextSample]_vars

\* C33: when the buffer holds at least 3 episodes and all of them have the
\* same outcome (one outcome class is empty), every triple (anchor,
\* positive, negative) returned by sample_contrastive_pairs consists of
\* three pairwise distinct buffered episodes, for every outcome of the
\* random draws.
C33_FallbackTriplesDistinct ==
    (/\ Len(episodes_) >= 3
     /\ \/ \A i \in 1..Len(episodes_) : episodes_[i].success
        \/ \A i \in 1..Len(episodes_) : ~episodes_[i].success)
    => \A p \in 1..Len(pairs) :
          /\ {pairs[p].anchor, pairs[p].positive, pairs[p].negative}
                \subseteq { episodes_[i] : i \in 1..Len(episodes_) }
          /\ Cardinality({pairs[p].anchor, pairs[p].positive, pairs[p].negative}) = 3

\* ---------------------------------------------------------------------
\* The history boost of TRMModel::predict (trm_model.cpp lines 34-41 and
\* 82-90), on the actions the orchestrator accumulated with push_back
\* (orchestrator.cpp lines 344-358: oldest first).
\* ---------------------------------------------------------------------

HistoryTools == {"file_read", "bash", "grep"}

\* for (const auto& action : history) { history_scores[action.tool] +=
\* recency; --recency; } with recency starting at history.size(). added
\* keeps the value of recency that each action was given.
RECURSIVE HistoryLoop(_, _, _, _)
HistoryLoop(history, i, recency, acc) ==
    IF i <= Len(history)
    THEN LET tool == history[i]
             seen == DOMAIN acc.scores
         IN HistoryLoop(history, i + 1, recency - 1,
                [scores |-> [t \in seen \cup {tool} |->
                                (IF t \in seen THEN acc.scores[t] ELSE 0)
                                + (IF t = tool THEN recency ELSE 0)],
                 added |-> Append(acc.added, recency)])
    ELSE acc

\* predict with a non-empty history: the recency scores are built
TRM_Predict ==
    /\ recent_actions # <<>>
    /\ history_scores' = HistoryLoop(recent_actions, 1, Len(recent_actions), NoScores)
    /\ UNCHANGED <<sample_rest, pairs, recent_actions>>

\* the orchestrator's current_actions_ at some turn: any tools, oldest first
InitPredict ==
    /\ AuxInit
    /\ CodecInit
    /\ RegistryInit
    /\ LockInit
    /\ ResumeInit
    /\ PoolInit
    /\ AbortInit
    /\ pairs = <<>>
    /\ recent_actions \in UNION { [1..n -> HistoryTools] : n \in 0..MaxHistory }
    /\ history_scores = NoScores

NextPredict == TRM_Predict

SpecPredict == InitPredict /\ [][NextPredict]_vars

\* C34: in the history boost of TRMModel::predict, for a history of n
\* actions given in chronological order (as the orchestrator accumulates
\* them), the most recent action contributes weight n and the oldest action
\* contributes weight 1 to its tool's recency score.
C34_MostRecentWeighsMost ==
    history_scores # NoScores =>
        LET n == Len(recent_actions)
        IN /\ history_scores.added[n] = n
           /\ history_scores.added[1] = 1
           /\ \A tool \in DOMAIN history_scores.scores :
                 (\A i \in 1..n : recent_actions[i] = tool <=> i = n)
                    => history_scores.scores[tool] = n

\* C35: the EpisodeAction recorded for an executed tool call has success =
\* true only if the tool itself reported success: a handler that returns a
\* ToolResult with success = false yields a recorded action with success =
\* false.
C35_ExecuteStep ==
    \A c \in Callers :
        P_ExecuteToolCall(c) =>
            LET action == current_actions'[Len(current_actions')]
                executed == dispatched'[Len(dispatched')]
            IN action.success =>
                  /\ executed.result.kind = "ok"
                  /\ executed.result.value.success

C35_RecordedSuccessIsToolSuccess == [][C35_ExecuteStep]_vars

\* ---------------------------------------------------------------------
\* ChatBackend::stopGeneration on the UI thread (chat_backend.cpp lines
\* 190-195) while the worker thread runs process_with_events (lines 20-38,
\* 148-152). abort_task is taken statement by statement. The task-tracking
\* fields are plain members (orchestrator.hpp lines 146-150): no mutex and
\* no atomic orders the two threads' accesses.
\* ---------------------------------------------------------------------

abort_rest == <<aux_vars, codec_vars, registry_vars, lock_vars, resume_vars, sample_vars,
                pool_vars, provider, state, shutdown_requested, current_turn, thread,
                training_in_progress, stop_requested, trainer, pc, loc, sd_pc, sent,
                dispatched>>

\* the worker thread is about to run record_action (orchestrator.cpp line 299)
RecordingAction(c) == pc[c] = "exec" /\ loc[c].idx <= Len(loc[c].calls)

\* the UI thread is inside abort_task
InAbort == stop_pc \in {"finalize", "clear"}

\* stopGeneration calls m_orchestrator->abort_task()
Stop_Call ==
    /\ stop_pc = "idle"
    /\ issued.client_calls < MaxTaskCalls
    /\ stop_pc' = "finalize"
    /\ issued' = [issued EXCEPT !.client_calls = @ + 1]
    /\ UNCHANGED <<abort_rest, episodic, buffer, current_task_description, current_actions>>

\* abort_task line 213: finalize_episode(false, "Task aborted by user")
Stop_Finalize ==
    /\ stop_pc = "finalize"
    /\ finalize_episode(FALSE)
    /\ stop_pc' = "clear"
    /\ UNCHANGED <<abort_rest, issued>>

\* abort_task lines 214-215: current_actions_.clear() and
\* current_task_description_.clear(). With the worker thread inside
\* record_action's push_back at the same time the vector is written by two
\* threads at once: it is left empty or as it was.
Stop_Clear ==
    /\ stop_pc = "clear"
    /\ current_actions' \in
          IF \E c \in Callers : RecordingAction(c) THEN {<<>>, current_actions} ELSE {<<>>}
    /\ current_task_description' = ""
    /\ stop_pc' = "idle"
    /\ UNCHANGED <<abort_rest, issued, episodic, buffer>>

InitAbort ==
    /\ AuxInit
    /\ ExtInit

NextAbort ==
    \/ Process("c1")
    \/ Stop_Call
    \/ Stop_Finalize
    \/ Stop_Clear
    \/ T_Epoch
    \/ T_Finish

SpecAbort == InitAbort /\ [][NextAbort]_vars

\* C36: the orchestrator's task-tracking fields (current_actions_,
\* current_task_description_) are never accessed by two threads at once: an
\* abort_task() issued from another thread (the UI's stop action) while
\* process_with_events() is running never overlaps the turn loop's
\* record_action accesses to those fields.
C36_NoConcurrentFieldAccess ==
    ~(InAbort /\ \E c \in Callers : RecordingAction(c))

\* C37: once disable_tool(name) or unregister_tool(name) has returned, no
\* invocation of that tool's handler begins afterwards, under every
\* interleaving with concurrent ToolRegistry::execute(name, ...) calls: when
\* a handler is invoked its tool is registered and enabled in the registry.
C37_InvokeStep ==
    Execute_Invoke => registry[exec.id].registered /\ registry[exec.id].enabled

C37_NoInvocationAfterDisable == [][C37_InvokeStep]_vars

\* ---------------------------------------------------------------------
\* ThreadPool (tool_executor.cpp lines 6-49, tool_executor.hpp lines 46-68)
\* with shutdown(), and the executor's statistics under execute,
\* execute_batch and execute_with_timeout (tool_executor.cpp lines 61-148,
\* 165-174). A worker that has returned from its loop has workers_[w] = -1.
\* ---------------------------------------------------------------------

\* a worker that returns as soon as stop is set
WorkerReturns_OnStop(stop, tasks) == stop

\* the worker loop's exit (line 17): if (stop_ && tasks_.empty()) return
WorkerReturns(stop, tasks) == stop /\ tasks = <<>>

\* record_execution (lines 165-174)
record_execution(stats, success) ==
    [stats EXCEPT !.total_executions = @ + 1,
                  !.successful = @ + (IF success THEN 1 ELSE 0),
                  !.failed = @ + (IF success THEN 0 ELSE 1)]

PoolCall(kind, queued) ==
    [kind |-> kind, queued |-> queued, runs |-> 0, ready |-> FALSE,
     caller |-> IF queued THEN "waiting" ELSE "threw", after_stop |-> FALSE]

\* ThreadPool::submit from execute_batch (line 96) or execute_with_timeout
\* (line 126): under mutex_, a stopped pool throws and a running one
\* enqueues the task
Pool_Submit ==
    /\ Len(submitted) < MaxSubmits
    /\ \E kind \in {"execute_batch", "execute_with_timeout"} :
          IF stop_
          THEN /\ submitted' = Append(submitted, PoolCall(kind, FALSE))
               /\ UNCHANGED tasks_
          ELSE /\ submitted' = Append(submitted, PoolCall(kind, TRUE))
               /\ tasks_' = Append(tasks_, Len(submitted) + 1)
    /\ UNCHANGED <<pool_rest, workers_, stop_, stats_>>

\* ToolExecutor::execute called directly (lines 61-78, as execute_tool_calls
\* does): the handler runs in the caller and is recorded once
Executor_Execute ==
    /\ Len(submitted) < MaxSubmits
    /\ \E success \in BOOLEAN : stats_' = record_execution(stats_, success)
    /\ submitted' = Append(submitted, [PoolCall("execute", FALSE) EXCEPT
                                          !.runs = 1, !.ready = TRUE, !.caller = "returned"])
    /\ UNCHANGED <<pool_rest, tasks_, workers_, stop_>>

\* the worker runs its task to the end (line 26): execute(call, ctx) records
\* the execution and the future becomes ready
Pool_Run(w) ==
    /\ workers_[w] > 0
    /\ \E success \in BOOLEAN : stats_' = record_execution(stats_, success)
    /\ submitted' = [submitted EXCEPT ![workers_[w]].runs = @ + 1,
                                      ![workers_[w]].ready = TRUE,
                                      ![workers_[w]].after_stop = stop_]
    /\ workers_' = [workers_ EXCEPT ![w] = 0]
    /\ UNCHANGED <<pool_rest, tasks_, stop_>>

\* a waiting worker finds stop_ set and the queue empty, and returns
Worker_Exit(w) ==
    /\ workers_[w] = 0
    /\ WorkerReturns(stop_, tasks_)
    /\ workers_' = [workers_ EXCEPT ![w] = -1]
    /\ UNCHANGED <<pool_rest, tasks_, stop_, stats_, submitted>>

\* ThreadPool::shutdown (lines 36-49): stop_ = true under mutex_, notify_all
Pool_Shutdown ==
    /\ ~stop_
    /\ stop_' = TRUE
    /\ UNCHANGED <<pool_rest, tasks_, workers_, stats_, submitted>>

\* execute_with_timeout: future.wait_for(timeout) returned timeout (lines
\* 130-144); the task stays where it is, queued or running
Call_Timeout(n) ==
    /\ submitted[n].kind = "execute_with_timeout"
    /\ submitted[n].caller = "waiting"
    /\ ~submitted[n].ready
    /\ stats_' = [stats_ EXCEPT !.timeouts = @ + 1, !.total_executions = @ + 1]
    /\ submitted' = [submitted EXCEPT ![n].caller = "timed_out"]
    /\ UNCHANGED <<pool_rest, tasks_, workers_, stop_>>

\* future.get() on a ready future (lines 117 and 147)
Call_Get(n) ==
    /\ submitted[n].caller = "waiting"
    /\ submitted[n].ready
    /\ submitted' = [submitted EXCEPT ![n].caller = "returned"]
    /\ UNCHANGED <<pool_rest, tasks_, workers_, stop_, stats_>>

InitPool ==
    /\ OrchInit
    /\ provider = "claude"
    /\ config_ \in [thread_pool_size : 1..MaxThreadPoolSize, max_parallel_tools : {1}]
    /\ BatchInit
    /\ primary_provider_ = "available"
    /\ fallback_provider_ = "none"
    /\ GatewayInit
    /\ TrainerInit
    /\ BufferInit
    /\ SessionInit
    /\ ExtInit

PoolWorker(w) ==
    /\ w <= config_.thread_pool_size
    /\ \/ Worker_Take(w)
       \/ Pool_Run(w)
       \/ Worker_Exit(w)

NextPool ==
    \/ Pool_Submit
    \/ Executor_Execute
    \/ Pool_Shutdown
    \/ \E w \in 1..MaxThreadPoolSize : PoolWorker(w)
    \/ \E n \in 1..Len(submitted) : Call_Timeout(n) \/ Call_Get(n)

\* every worker thread keeps running: it takes a task when there is one and
\* its task terminates
SpecPool ==
    /\ InitPool
    /\ [][NextPool]_vars
    /\ \A w \in 1..MaxThreadPoolSize : WF_vars(PoolWorker(w))

\* C38: every task accepted by ThreadPool::submit is eventually executed
\* exactly once by some worker and its future fulfilled, also when
\* shutdown() is called while the task is still queued: a worker exits only
\* when stop is set and the queue is empty, and submit after stop is
\* rejected instead of enqueuing.
C38_AcceptedTasksRunOnce ==
    /\ [](/\ \A n \in 1..Len(submitted) :
               /\ submitted[n].runs <= 1
               /\ submitted[n].caller = "threw" => submitted[n].runs = 0
          /\ \A w \in 1..MaxThreadPoolSize :
               workers_[w] = -1 => stop_ /\ tasks_ = <<>>)
    /\ [][stop_ => Len(tasks_') <= Len(tasks_)]_vars
    /\ \A n \in 1..MaxSubmits :
          (n <= Len(submitted) /\ submitted[n].queued)
             ~> (n <= Len(submitted) /\ submitted[n].runs = 1 /\ submitted[n].ready)

\* a task that was still queued when shutdown() was called has been run
C38_Witness ==
    \E n \in 1..Len(submitted) :
        /\ submitted[n].queued
        /\ submitted[n].runs = 1
        /\ submitted[n].after_stop

\* C39: each call to ToolExecutor::execute or execute_with_timeout is
\* counted exactly once in the executor stats: once all handlers have
\* finished, total_executions equals the number of calls issued and each
\* call has incremented exactly one of successful, failed or timeouts,
\* including a call whose handler completes after the caller's timeout
\* expired.
C39_EachCallCountedOnce ==
    LET Quiescent ==
            /\ tasks_ = <<>>
            /\ \A w \in 1..MaxThreadPoolSize : workers_[w] <= 0
            /\ \A n \in 1..Len(submitted) :
                  submitted[n].caller # "waiting" /\ (submitted[n].queued => submitted[n].ready)
        Issued == { n \in 1..Len(submitted) : submitted[n].queued \/ submitted[n].kind = "execute" }
    IN Quiescent =>
          /\ stats_.total_executions = Cardinality(Issued)
          /\ stats_.successful + stats_.failed + stats_.timeouts = Cardinality(Issued)

====
